---------------------------- MODULE Spec2Model ----------------------------
(***************************************************************************)
(* Model of pakto (rpgomes-code/pakto): the conversion pipeline that       *)
(* analyzes an npm package, gates it on feasibility, transforms it,        *)
(* bundles its dependencies and writes the result.                         *)
(*                                                                         *)
(* Source text is modelled as TLA+ strings, character by character:        *)
(* Len, \o and SubSeq are the only string primitives used.                 *)
(***************************************************************************)
EXTENDS Integers, Sequences, FiniteSets, TLC

(***************************************************************************)
(* String primitives (Rust str / regex crate semantics).                   *)
(***************************************************************************)

\* s[i] as a one-character string.
Ch(s, i) == SubSeq(s, i, i)

\* s[i..] (Rust &s[i-1..]).
StrFrom(s, i) == SubSeq(s, i, Len(s))

\* str::matches(c).count() for a single character c.
CountCh(s, c) == Cardinality({i \in 1..Len(s) : Ch(s, i) = c})

\* p occurs in s starting at position i.
StartsAt(s, i, p) == i + Len(p) - 1 <= Len(s) /\ SubSeq(s, i, i + Len(p) - 1) = p

\* str::contains(p).
Contains(s, p) == \E i \in 1..(Len(s) + 1) : StartsAt(s, i, p)

\* str::starts_with(p).
StartsWith(s, p) == StartsAt(s, 1, p)

\* The regex class \s and char::is_whitespace, restricted to ASCII.
Ws == {" ", "\t", "\n", "\r"}

\* The string delimiters accepted by the require/import regexes.  The
\* source class also holds the backtick, which a TLA+ string cannot hold:
\* the modelled alphabet has no backtick.
Quotes == {"'", "\""}

Digits == {"0", "1", "2", "3", "4", "5", "6", "7", "8", "9"}

Lower == {"a", "b", "c", "d", "e", "f", "g", "h", "i", "j", "k", "l", "m",
          "n", "o", "p", "q", "r", "s", "t", "u", "v", "w", "x", "y", "z"}

Upper == {"A", "B", "C", "D", "E", "F", "G", "H", "I", "J", "K", "L", "M",
          "N", "O", "P", "Q", "R", "S", "T", "U", "V", "W", "X", "Y", "Z"}

\* char::is_alphanumeric, restricted to ASCII.
AlphaNum == Lower \cup Upper \cup Digits

\* The regex class \w, restricted to ASCII.
WordCh == AlphaNum \cup {"_"}

\* The first position j >= i of s whose character is not in Class
\* (Len(s)+1 when the run reaches the end): the end of a greedy Class*.
RunEnd(s, i, Class) ==
    CHOOSE j \in i..(Len(s) + 1) :
        /\ (j = Len(s) + 1 \/ Ch(s, j) \notin Class)
        /\ \A k \in i..(j - 1) : Ch(s, k) \in Class

\* The first position j >= i of s whose character is in Class
\* (Len(s)+1 when there is none): the end of a greedy [^Class]*.
RunEndNot(s, i, Class) ==
    CHOOSE j \in i..(Len(s) + 1) :
        /\ (j = Len(s) + 1 \/ Ch(s, j) \in Class)
        /\ \A k \in i..(j - 1) : Ch(s, k) \notin Class

\* The least element of a non-empty set of integers.
MinOf(S) == CHOOSE x \in S : \A y \in S : x <= y

\* The greatest element of a non-empty set of integers.
MaxOf(S) == CHOOSE x \in S : \A y \in S : x >= y

\* str::trim_end().
TrimEnd(s) ==
    LET keep == {i \in 1..Len(s) : Ch(s, i) \notin Ws}
    IN  IF keep = {} THEN "" ELSE SubSeq(s, 1, MaxOf(keep))

\* str::trim().
Trim(s) ==
    LET keep == {i \in 1..Len(s) : Ch(s, i) \notin Ws}
    IN  IF keep = {} THEN "" ELSE SubSeq(s, MinOf(keep), MaxOf(keep))

\* str::lines(): split at "\n"; a final empty piece is not a line.
Lines(s) ==
    LET nl    == {i \in 1..Len(s) : Ch(s, i) = "\n"}
        n     == Cardinality(nl)
        kth(k) == IF k = 0 THEN 0
                  ELSE IF k = n + 1 THEN Len(s) + 1
                  ELSE CHOOSE p \in nl : Cardinality({q \in nl : q <= p}) = k
        last  == IF n = 0 THEN 0 ELSE MaxOf(nl)
        cnt   == IF last = Len(s) THEN n ELSE n + 1
    IN  [k \in 1..cnt |-> SubSeq(s, kth(k - 1) + 1, kth(k) - 1)]

\* [String]::join(sep).
RECURSIVE Join(_, _)
Join(ss, sep) ==
    IF ss = <<>> THEN ""
    ELSE IF Len(ss) = 1 THEN ss[1]
    ELSE ss[1] \o sep \o Join(Tail(ss), sep)

\* Concatenation of a sequence of strings (successive push_str).
Concat(ss) == Join(ss, "")

\* Concatenation of a sequence of sequences (successive Vec::extend).
RECURSIVE Concat2(_)
Concat2(qs) == IF qs = <<>> THEN <<>> ELSE Head(qs) \o Concat2(Tail(qs))

\* A let binding: the value v handed to the rest of the computation.
With(v, Rest(_)) == Rest(v)

\* The elements of a sequence, as a set.
Range(f) == {f[i] : i \in DOMAIN f}

\* Byte order of the characters that occur in identifiers (for Vec::sort).
CharOrd == "0123456789ABCDEFGHIJKLMNOPQRSTUVWXYZ_abcdefghijklmnopqrstuvwxyz"

\* The rank of character c in byte order (0 for a character outside CharOrd).
Ord(c) ==
    IF \E i \in 1..Len(CharOrd) : Ch(CharOrd, i) = c
    THEN CHOOSE i \in 1..Len(CharOrd) : Ch(CharOrd, i) = c
    ELSE 0

\* a < b in the lexicographic byte order of str.
RECURSIVE StrLess(_, _)
StrLess(a, b) ==
    IF b = "" THEN FALSE
    ELSE IF a = "" THEN TRUE
    ELSE IF Ch(a, 1) # Ch(b, 1) THEN Ord(Ch(a, 1)) < Ord(Ch(b, 1))
    ELSE StrLess(StrFrom(a, 2), StrFrom(b, 2))

\* Vec::sort followed by Vec::dedup: the elements of S in ascending order.
RECURSIVE SortDedup(_)
SortDedup(S) ==
    IF S = {} THEN <<>>
    ELSE LET m == CHOOSE x \in S : \A y \in S \ {x} : StrLess(x, y)
         IN  <<m>> \o SortDedup(S \ {m})

\* Regex::is_match for the patterns the model passes as exclude patterns:
\* literal characters and the wildcard "." (any character but a newline),
\* unanchored.
RegexIsMatch(pat, s) ==
    \E i \in 1..(Len(s) + 1) :
        /\ i + Len(pat) - 1 <= Len(s)
        /\ \A k \in 1..Len(pat) :
              \/ Ch(pat, k) = Ch(s, i + k - 1)
              \/ (Ch(pat, k) = "." /\ Ch(s, i + k - 1) # "\n")

(***************************************************************************)
(* Bundler (src/src/bundler.rs).                                           *)
(***************************************************************************)

\* One attempt of require\s*\(\s*['"]([^'"]+)['"]\s*\) at position i.
RequireMatchAt(s, i) ==
    LET p2 == RunEnd(s, i + 7, Ws)
        p4 == RunEnd(s, p2 + 1, Ws)
        p6 == RunEndNot(s, p4 + 1, Quotes)
        p7 == RunEnd(s, p6 + 1, Ws)
    IN  IF /\ StartsAt(s, i, "require")
           /\ p2 <= Len(s) /\ Ch(s, p2) = "("
           /\ p4 <= Len(s) /\ Ch(s, p4) \in Quotes
           /\ p6 > p4 + 1
           /\ p6 <= Len(s)
           /\ p7 <= Len(s) /\ Ch(s, p7) = ")"
        THEN [ok |-> TRUE, name |-> SubSeq(s, p4 + 1, p6 - 1), end |-> p7 + 1]
        ELSE [ok |-> FALSE, name |-> "", end |-> i]

\* One attempt of (?:import|from)\s+['"]([^'"]+)['"] at position i.
ImportMatchAt(s, i) ==
    LET p1 == IF StartsAt(s, i, "import") THEN i + 6 ELSE i + 4
        p2 == RunEnd(s, p1, Ws)
        p4 == RunEndNot(s, p2 + 1, Quotes)
    IN  IF /\ (StartsAt(s, i, "import") \/ StartsAt(s, i, "from"))
           /\ p2 > p1
           /\ p2 <= Len(s) /\ Ch(s, p2) \in Quotes
           /\ p4 > p2 + 1
           /\ p4 <= Len(s)
        THEN [ok |-> TRUE, name |-> SubSeq(s, p2 + 1, p4 - 1), end |-> p4 + 1]
        ELSE [ok |-> FALSE, name |-> "", end |-> i]

\* One attempt of <var>\.(\w+) at position i.
UsageMatchAt(s, i, var) ==
    LET p1 == i + Len(var) + 1
        p2 == RunEnd(s, p1, WordCh)
    IN  IF StartsAt(s, i, var \o ".") /\ p2 > p1
        THEN [ok |-> TRUE, name |-> SubSeq(s, p1, p2 - 1), end |-> p2]
        ELSE [ok |-> FALSE, name |-> "", end |-> i]

\* captures_iter of the require regex: group 1 of the leftmost
\* non-overlapping matches from position from on, in order.
RECURSIVE RequireCaptures(_, _)
RequireCaptures(s, from) ==
    LET cands == {i \in from..Len(s) : RequireMatchAt(s, i).ok}
    IN  IF cands = {} THEN <<>>
        ELSE LET m == RequireMatchAt(s, MinOf(cands))
             IN  <<m.name>> \o RequireCaptures(s, m.end)

\* captures_iter of the import regex.
RECURSIVE ImportCaptures(_, _)
ImportCaptures(s, from) ==
    LET cands == {i \in from..Len(s) : ImportMatchAt(s, i).ok}
    IN  IF cands = {} THEN <<>>
        ELSE LET m == ImportMatchAt(s, MinOf(cands))
             IN  <<m.name>> \o ImportCaptures(s, m.end)

\* captures_iter of the usage regex of one variable name.
RECURSIVE UsageCaptures(_, _, _)
UsageCaptures(s, from, var) ==
    LET cands == {i \in from..Len(s) : UsageMatchAt(s, i, var).ok}
    IN  IF cands = {} THEN <<>>
        ELSE LET m == UsageMatchAt(s, MinOf(cands), var)
             IN  <<m.name>> \o UsageCaptures(s, m.end, var)

\* The Node.js built-ins should_bundle_dependency never bundles.
BundlerBuiltins == {"fs", "path", "crypto", "http", "https", "os", "child_process"}

\* Bundler::should_bundle_dependency.
should_bundle_dependency(cfg, dep_name) ==
    IF dep_name \in BundlerBuiltins THEN FALSE
    ELSE IF dep_name \in cfg.exclude_dependencies THEN FALSE
    ELSE IF dep_name \in cfg.force_inline THEN TRUE
    ELSE StartsWith(dep_name, ".") \/ StartsWith(dep_name, "/")

\* dependency_to_variable_name mapping each separator to a two-character
\* escape that starts with the separator "-".
dependency_to_variable_name_escaped(dep_name) ==
    LET r1 == [i \in 1..Len(dep_name) |->
                  IF Ch(dep_name, i) \in {"/", "-", ".", "@"} THEN "-_"
                  ELSE Ch(dep_name, i)]
        r2 == [i \in 1..Len(dep_name) |->
                  IF r1[i] \notin AlphaNum /\ r1[i] \notin {"_", "-_"} THEN "" ELSE r1[i]]
    IN  Concat(r2)

\* Bundler::dependency_to_variable_name.
dependency_to_variable_name(dep_name) ==
    LET r1 == [i \in 1..Len(dep_name) |->
                  IF Ch(dep_name, i) \in {"/", "-", ".", "@"} THEN "_"
                  ELSE Ch(dep_name, i)]
        r2 == [i \in 1..Len(dep_name) |->
                  IF r1[i] \notin AlphaNum /\ r1[i] # "_" THEN "" ELSE r1[i]]
    IN  Concat(r2)

\* Bundler::dependency_to_global_name.
dependency_to_global_name(dep_name) ==
    IF dep_name = "lodash" THEN "_"
    ELSE IF dep_name = "jquery" THEN "$"
    ELSE Concat([i \in 1..Len(dep_name) |->
                    IF Ch(dep_name, i) \in {"/", "-"} THEN "_"
                    ELSE Ch(dep_name, i)])

\* Bundler::detect_circular_dependencies.
detect_circular_dependencies(bundled) == <<>>

\* Bundler::estimate_bundle_size.
estimate_bundle_size(bundled) == Len(bundled) * 5120

\* Bundler::analyze_dependencies.
analyze_dependencies(cfg, code) ==
    LET Keep(d) == should_bundle_dependency(cfg, d)
        Drop(d) == ~should_bundle_dependency(cfg, d)
    IN  With(RequireCaptures(code, 1) \o ImportCaptures(code, 1), LAMBDA found :
        With(SelectSeq(found, Keep), LAMBDA bundled :
            [ total_dependencies    |-> Cardinality(Range(found)),
              bundled_dependencies  |-> bundled,
              external_dependencies |-> SelectSeq(found, Drop),
              circular_dependencies |-> detect_circular_dependencies(bundled),
              unused_dependencies   |-> <<>>,
              estimated_size        |-> estimate_bundle_size(bundled) ]))

\* Bundler::resolve_and_load_dependency (always Ok).
resolve_and_load_dependency(dep_name) ==
    "// Placeholder for dependency: " \o dep_name \o "\nvar "
        \o dependency_to_variable_name(dep_name) \o " = {};"

\* Bundler::wrap_dependency_code.
wrap_dependency_code(dep_name, code) ==
    LET ls == Lines(code)
    IN  "  var " \o dependency_to_variable_name(dep_name)
          \o " = (function() {\n    var module = { exports: {} };\n"
          \o "    var exports = module.exports;\n    \n"
          \o Join([k \in 1..Len(ls) |-> "    " \o ls[k]], "\n")
          \o "\n    \n    return module.exports;\n  })();"

\* The dependency loop of Bundler::bundle_inline from index k on:
\* processed is processed_modules, out is bundled_code.
RECURSIVE InlineLoop(_, _, _, _)
InlineLoop(deps, k, processed, out) ==
    IF k > Len(deps) THEN out
    ELSE IF deps[k] \in processed THEN InlineLoop(deps, k + 1, processed, out)
    ELSE InlineLoop(deps, k + 1, processed \cup {deps[k]},
             out \o "\n  // === Dependency: " \o deps[k] \o " ===\n"
                 \o wrap_dependency_code(deps[k], resolve_and_load_dependency(deps[k]))
                 \o "\n")

\* Bundler::bundle_inline.
bundle_inline(main_code, dependencies, options) ==
    InlineLoop(dependencies.bundled_dependencies, 1, {}, "")
        \o "\n  // === Main Module ===\n" \o main_code

\* Bundler::analyze_used_exports: the HashMap from dependency name to its
\* sorted, deduplicated export names; a dependency without usage has no key.
analyze_used_exports(code, dependencies) ==
    LET Exports(d) == UsageCaptures(code, 1, dependency_to_variable_name(d))
        used       == {d \in Range(dependencies) : Exports(d) # <<>>}
    IN  [d \in used |-> SortDedup(Range(Exports(d)))]

\* Bundler::tree_shake_module.
tree_shake_module(code, used_exports) ==
    IF used_exports = <<>> THEN "// Tree-shaken: no exports used\n"
    ELSE "// Tree-shaken module (keeping: " \o Join(used_exports, ", ") \o ")\n" \o code

\* Bundler::bundle_selective.  order is the order in which the HashMap
\* used_exports yields its keys, which the program does not choose.
bundle_selective(main_code, dependencies, options, order) ==
    LET used_exports == analyze_used_exports(main_code, dependencies.bundled_dependencies)
        Section(d)   ==
            "\n  // === Dependency: " \o d \o " (tree-shaken) ===\n"
              \o wrap_dependency_code(d,
                     tree_shake_module(resolve_and_load_dependency(d), used_exports[d]))
              \o "\n"
    IN  Concat([k \in 1..Len(order) |-> Section(order[k])])
          \o "\n  // === Main Module ===\n" \o main_code

\* The iteration orders a HashMap with key set S may have.
KeyOrders(S) ==
    {o \in [1..Cardinality(S) -> S] : \A i, j \in DOMAIN o : i # j => o[i] # o[j]}

\* Bundler::bundle_external.
bundle_external(main_code, dependencies, options) ==
    LET ext      == dependencies.external_dependencies
        Guard(d) == "  if (typeof " \o dependency_to_global_name(d) \o " === 'undefined') {\n"
                      \o "    throw new Error('External dependency not found: " \o d \o "');\n"
                      \o "  }\n"
    IN  (IF ext # <<>>
         THEN "\n  // === External Dependencies ===\n"
                \o Concat([k \in 1..Len(ext) |-> Guard(ext[k])]) \o "\n"
         ELSE "")
          \o "  // === Main Module ===\n" \o main_code

\* Bundler::should_inline_dependency.
should_inline_dependency(dep_name, options) ==
    IF \E k \in 1..Len(options.exclude_patterns) :
           RegexIsMatch(options.exclude_patterns[k], dep_name)
    THEN FALSE
    ELSE IF options.inline_small_modules
    THEN Len(dep_name) * 100 < options.max_inline_size
    ELSE TRUE

\* Bundler::bundle_hybrid.
bundle_hybrid(main_code, dependencies, options) ==
    LET Inl(d)       == should_inline_dependency(d, options)
        Ext(d)       == ~should_inline_dependency(d, options)
        inlined_deps  == SelectSeq(dependencies.bundled_dependencies, Inl)
        external_deps == SelectSeq(dependencies.bundled_dependencies, Ext)
        Section(d)   == "\n  // === Inlined: " \o d \o " ===\n"
                          \o wrap_dependency_code(d, resolve_and_load_dependency(d))
                          \o "\n"
        Binding(d)   == "  var " \o dependency_to_variable_name(d) \o " = global."
                          \o dependency_to_global_name(d) \o " || require('" \o d \o "');\n"
    IN  Concat([k \in 1..Len(inlined_deps) |-> Section(inlined_deps[k])])
          \o (IF external_deps # <<>>
              THEN "\n  // === External Dependencies ===\n"
                     \o Concat([k \in 1..Len(external_deps) |-> Binding(external_deps[k])])
                     \o "\n"
              ELSE "")
          \o "  // === Main Module ===\n" \o main_code

\* Bundler::create_bundle_options (every modelled pattern compiles).
create_bundle_options(cfg, strategy, exclude_dependencies) ==
    [ tree_shake           |-> strategy \in {"Selective", "Hybrid"},
      deduplicate          |-> TRUE,
      inline_small_modules |-> strategy \in {"Inline", "Hybrid"},
      max_inline_size      |-> cfg.max_size \div 10,
      exclude_patterns     |-> exclude_dependencies ]

\* The text of a trimmed line before its first "{" (split('{').next()).
FuncSignature(trimmed) ==
    SubSeq(trimmed, 1, RunEndNot(trimmed, 1, {"{"}) - 1)

\* The line loop of Bundler::deduplicate_code from index k on:
\* seen is seen_functions, out is deduplicated_lines.
RECURSIVE DedupLoop(_, _, _, _)
DedupLoop(lines, k, seen, out) ==
    IF k > Len(lines) THEN out
    ELSE IF StartsWith(Trim(lines[k]), "function ")
    THEN LET sig == FuncSignature(Trim(lines[k]))
         IN  IF sig \notin seen
             THEN DedupLoop(lines, k + 1, seen \cup {sig}, Append(out, lines[k]))
             ELSE DedupLoop(lines, k + 1, seen, out)
    ELSE DedupLoop(lines, k + 1, seen, Append(out, lines[k]))

\* Bundler::deduplicate_code.
deduplicate_code(code) == Join(DedupLoop(Lines(code), 1, {}, <<>>), "\n")

\* replace_all of \n\s*\n\s*\n by "\n\n" from position from on: a match
\* starts at a newline whose whitespace run holds at least three newlines
\* and, being greedy, ends at the last newline of that run.
RECURSIVE CollapseBlankLines(_, _)
CollapseBlankLines(s, from) ==
    LET NlIn(i)  == {j \in i..(RunEnd(s, i, Ws) - 1) : Ch(s, j) = "\n"}
        cands    == {i \in from..Len(s) : Ch(s, i) = "\n" /\ Cardinality(NlIn(i)) >= 3}
    IN  IF cands = {} THEN StrFrom(s, from)
        ELSE LET i == MinOf(cands)
             IN  SubSeq(s, from, i - 1) \o "\n\n"
                   \o CollapseBlankLines(s, MaxOf(NlIn(i)) + 1)

\* Bundler::clean_bundle.
clean_bundle(code) ==
    With(Lines(CollapseBlankLines(code, 1)),
         LAMBDA ls : Join([k \in 1..Len(ls) |-> TrimEnd(ls[k])], "\n"))

\* validate_bundle without the parenthesis check.
validate_bundle_no_parens(cfg, code) ==
    IF CountCh(code, "{") # CountCh(code, "}")
    THEN [ok |-> FALSE, err |-> [type |-> "BundleTooLarge", size |-> 0, max |-> 0]]
    ELSE IF Len(code) > cfg.max_size
    THEN [ok |-> FALSE,
          err |-> [type |-> "BundleTooLarge", size |-> Len(code), max |-> cfg.max_size]]
    ELSE [ok |-> TRUE]

\* Bundler::validate_bundle: Ok(()) or the error it returns.
validate_bundle(cfg, code) ==
    IF CountCh(code, "{") # CountCh(code, "}")
    THEN [ok |-> FALSE, err |-> [type |-> "BundleTooLarge", size |-> 0, max |-> 0]]
    ELSE IF CountCh(code, "(") # CountCh(code, ")")
    THEN [ok |-> FALSE, err |-> [type |-> "BundleTooLarge", size |-> 0, max |-> 0]]
    ELSE IF Len(code) > cfg.max_size
    THEN [ok |-> FALSE,
          err |-> [type |-> "BundleTooLarge", size |-> Len(code), max |-> cfg.max_size]]
    ELSE [ok |-> TRUE]

\* Bundler::optimize_bundle: Ok(optimized) or the validation error.
optimize_bundle(cfg, code, options) ==
    With(clean_bundle(IF options.deduplicate THEN deduplicate_code(code) ELSE code),
         LAMBDA optimized :
            With(validate_bundle(cfg, optimized),
                 LAMBDA v : IF v.ok THEN [ok |-> TRUE, code |-> optimized] ELSE v))

\* The strategy dispatch of Bundler::bundle: the assembled, unoptimized code.
AssembleByStrategy(main_code, strategy, dependencies, options, order) ==
    CASE strategy = "Inline"    -> bundle_inline(main_code, dependencies, options)
      [] strategy = "Selective" -> bundle_selective(main_code, dependencies, options, order)
      [] strategy = "External"  -> bundle_external(main_code, dependencies, options)
      [] strategy = "Hybrid"    -> bundle_hybrid(main_code, dependencies, options)

\* Bundler::bundle: Ok(BundledCode) or the error of optimize_bundle.
bundle(cfg, transformed_code, strategy, exclude_dependencies, order) ==
    With(analyze_dependencies(cfg, transformed_code), LAMBDA dependencies :
    With(create_bundle_options(cfg, strategy, exclude_dependencies), LAMBDA bundle_options :
    With(AssembleByStrategy(transformed_code, strategy, dependencies, bundle_options,
                            order), LAMBDA bundled_code :
    With(optimize_bundle(cfg, bundled_code, bundle_options), LAMBDA optimized :
        IF optimized.ok
        THEN [ ok                   |-> TRUE,
               code                 |-> optimized.code,
               bundled_dependencies |-> dependencies.bundled_dependencies,
               unminified_size      |-> Len(bundled_code) ]
        ELSE optimized))))

(***************************************************************************)
(* CodeTransformer (src/src/transformer.rs).                               *)
(***************************************************************************)

\* An absent Option is the empty sequence, Some(v) is <<v>>.
NoneOpt == <<>>

\* CodeTransformer::should_transform_file and
\* PackageAnalyzer::should_analyze_file: the extension of the path, lower
\* case, is one of js, ts, jsx, tsx, mjs, cjs.  Modelled paths are lower case.
HasSourceExtension(path) ==
    LET dots == {i \in 1..Len(path) : Ch(path, i) = "."}
        ext  == IF dots = {} THEN "" ELSE StrFrom(path, MaxOf(dots) + 1)
    IN  dots # {} /\ MaxOf(dots) > 1 /\ ext \in {"js", "ts", "jsx", "tsx", "mjs", "cjs"}

\* The polyfill a require()/import of a module name makes
\* OutSystemsTransformer push (the empty string when it pushes none).
PolyfillOfModule(name) ==
    IF name \in {"crypto", "buffer", "events", "process"} THEN name ELSE ""

\* The polyfills_needed OutSystemsTransformer collects on one module:
\* one entry per require()/import of crypto, buffer, events or process and
\* one "process" per process.env access.
\* (The visitor walks the tree; the model lists requires, then imports,
\* then member accesses.)
polyfills_needed(content) ==
    LET IsPolyfilled(n) == PolyfillOfModule(n) # ""
        env == {i \in 1..Len(content) :
                   /\ StartsAt(content, i, "process.env")
                   /\ (i = 1 \/ Ch(content, i - 1) \notin (WordCh \cup {"."}))
                   /\ (i + 11 > Len(content) \/ Ch(content, i + 11) \notin WordCh)}
    IN  SelectSeq(RequireCaptures(content, 1), IsPolyfilled)
          \o SelectSeq(ImportCaptures(content, 1), IsPolyfilled)
          \o [k \in 1..Cardinality(env) |-> "process"]

\* What the SWC emitter prints for a module without comment store: the
\* statements of the module, comments and blank lines dropped.
\* (Modelled for sources whose statements the passes before it leave as
\* they are: no module syntax to convert, nothing to downlevel.)
emit_module(content) ==
    LET ls      == Lines(content)
        Code(l) == Trim(l) # "" /\ ~StartsWith(Trim(l), "//")
        kept    == SelectSeq(ls, Code)
    IN  IF kept = <<>> THEN "" ELSE Join(kept, "\n") \o "\n"

\* CodeTransformer::transform_file on a file the SWC parser accepts
\* (parses) or rejects: Ok(ModuleTransformResult) or Err.  The code is what
\* the emitter prints; the renaming of the specifier of a polyfilled module
\* is not followed into the printed text.
transform_file(file) ==
    IF ~file.parses THEN [ok |-> FALSE]
    ELSE [ok |-> TRUE,
          code |-> emit_module(file.content),
          polyfills_used |-> polyfills_needed(file.content)]

\* CodeTransformer::generate_module_header.
generate_module_header(opts, package_name) ==
    LET global_name == IF opts.name # NoneOpt THEN opts.name[1] ELSE package_name
    IN  "(function(global, factory) {\n"
          \o "  'use strict';\n\n"
          \o "  if (typeof module === 'object' && typeof module.exports === 'object') {\n"
          \o "    // Node.js\n"
          \o "    module.exports = factory();\n"
          \o "  } else if (typeof define === 'function' && define.amd) {\n"
          \o "    // AMD\n"
          \o "    define(factory);\n"
          \o "  } else {\n"
          \o "    // Browser globals (OutSystems)\n"
          \o (IF opts.namespace # NoneOpt
              THEN "    global." \o opts.namespace[1] \o " = global." \o opts.namespace[1]
                     \o " || {};\n"
                     \o "    global." \o opts.namespace[1] \o "." \o global_name
                     \o " = factory();\n"
              ELSE "    global." \o global_name \o " = factory();\n")
          \o "  }\n"
          \o "})(typeof window !== 'undefined' ? window : this, function() {\n"
          \o "  'use strict';\n\n"
          \o "  // Common utilities\n"
          \o "  var hasOwnProperty = Object.prototype.hasOwnProperty;\n"
          \o "  var toString = Object.prototype.toString;\n\n"

\* CodeTransformer::generate_module_footer.
generate_module_footer(main) ==
    "\n  // Module exports\n"
      \o (IF main # NoneOpt THEN "  // Main entry point: " \o main[1] \o "\n" ELSE "")
      \o "  return typeof module !== 'undefined' && module.exports ? module.exports : {};\n"
      \o "});\n"

\* CodeTransformer::bundle_files; files is the HashMap of transformed
\* files in the order its iteration yields them.
bundle_files(files, opts, package_name, main) ==
    generate_module_header(opts, package_name)
      \o Concat([k \in 1..Len(files) |->
                    "\n// === " \o files[k].path \o " ===\n" \o files[k].code \o "\n"])
      \o generate_module_footer(main)

\* PolyfillRegistry::get_polyfill: the registered names.  The registered
\* sources are the files polyfills/*.js, included at build time.
RegisteredPolyfills == {"crypto", "buffer", "events", "process", "path", "util"}

\* The source text registered for a polyfill name.
PolyfillSource(name) == "var " \o name \o "Polyfill = {};\n"

\* PolyfillBlock writing the heading of a name whether registered or not.
PolyfillBlock_unchecked(name) ==
    LET ls == IF name \in RegisteredPolyfills THEN Lines(PolyfillSource(name)) ELSE <<>>
    IN  "  // Polyfill: " \o name \o "\n"
          \o Concat([k \in 1..Len(ls) |->
                        (IF Trim(ls[k]) # "" THEN "  " \o ls[k] ELSE "") \o "\n"])
          \o "\n"

\* The text CodeTransformer::inject_polyfills inserts for one name.
PolyfillBlock(name) ==
    IF name \notin RegisteredPolyfills THEN ""
    ELSE LET ls == Lines(PolyfillSource(name))
         IN  "  // Polyfill: " \o name \o "\n"
               \o Concat([k \in 1..Len(ls) |->
                             (IF Trim(ls[k]) # "" THEN "  " \o ls[k] ELSE "") \o "\n"])
               \o "\n"

\* CodeTransformer::inject_polyfills.
inject_polyfills(code, needed) ==
    IF needed = <<>> THEN code
    ELSE LET ls     == Lines(code)
             strict == {i \in 1..Len(ls) : Contains(ls[i], "'use strict';") /\ i > 1}
             \* the 0-based index the loop compares with: the line after
             \* the first strict-mode line that is not the first line
             injection_point == IF strict = {} THEN 0 ELSE MinOf(strict)
         IN  Concat([k \in 1..Len(ls) |->
                        ls[k] \o "\n"
                          \o (IF k - 1 = injection_point
                              THEN "\n  // === Polyfills ===\n"
                                     \o Concat([j \in 1..Len(needed) |-> PolyfillBlock(needed[j])])
                                     \o "  // === End Polyfills ===\n\n"
                              ELSE "")])

\* transform_package leaving a file that fails to transform out of the
\* module and out of the count.
transform_package_dropping(files, order, opts, package_name, main) ==
    LET Visit(f)   == HasSourceExtension(f.path) /\ transform_file(f).ok
        visited    == SelectSeq(files, Visit)
        failed     == SelectSeq(files, LAMBDA f : HasSourceExtension(f.path)
                                                    /\ ~transform_file(f).ok)
        byPath     == [q \in {visited[k].path : k \in 1..Len(visited)} |->
                          transform_file(CHOOSE f \in Range(visited) : f.path = q).code]
        kept       == SelectSeq(order, LAMBDA q : q \in DOMAIN byPath)
        all_polyfills == Concat2([k \in 1..Len(visited) |->
                                     transform_file(visited[k]).polyfills_used])
        bundled_code  == bundle_files([k \in 1..Len(kept) |->
                                          [path |-> kept[k], code |-> byPath[kept[k]]]],
                                      opts, package_name, main)
    IN  [ ok              |-> TRUE,
          files_processed |-> Len(visited),
          code            |-> inject_polyfills(bundled_code, all_polyfills),
          polyfills       |-> all_polyfills,
          warnings        |-> [k \in 1..Len(failed) |-> failed[k].path] ]

\* CodeTransformer::transform_package.  files are the package files in the
\* order the loop visits them, order is the order in which the HashMap
\* transformed_files yields its paths; warnings are the paths of the warn!
\* lines "Failed to transform file", in the order they are logged.
transform_package(files, order, opts, package_name, main) ==
    LET Visit(f)   == HasSourceExtension(f.path)
        visited    == SelectSeq(files, Visit)
        CodeOf(f)  == With(transform_file(f),
                           LAMBDA r : IF r.ok THEN r.code ELSE f.content)
        UsedOf(f)  == With(transform_file(f),
                           LAMBDA r : IF r.ok THEN r.polyfills_used ELSE <<>>)
        failed     == SelectSeq(visited, LAMBDA f : ~transform_file(f).ok)
        byPath     == [q \in {visited[k].path : k \in 1..Len(visited)} |->
                          CodeOf(CHOOSE f \in Range(visited) : f.path = q)]
        all_polyfills == Concat2([k \in 1..Len(visited) |-> UsedOf(visited[k])])
        bundled_code  == bundle_files([k \in 1..Len(order) |->
                                          [path |-> order[k], code |-> byPath[order[k]]]],
                                      opts, package_name, main)
    IN  [ ok              |-> TRUE,
          files_processed |-> Len(visited),
          code            |-> inject_polyfills(bundled_code, all_polyfills),
          polyfills       |-> all_polyfills,
          warnings        |-> [k \in 1..Len(failed) |-> failed[k].path] ]

(***************************************************************************)
(* PackageAnalyzer (src/src/analyzer.rs): dependency classification and    *)
(* the feasibility verdict.                                                *)
(***************************************************************************)

\* PackageAnalyzer::is_problematic_dependency.
is_problematic_dependency(name) ==
    \/ name \in {"fsevents", "node-gyp", "sqlite3", "canvas",
                 "sharp", "puppeteer", "electron", "native-*"}
    \/ Contains(name, "native")
    \/ Contains(name, "gyp")

\* PackageAnalyzer::is_browser_compatible.
is_browser_compatible(name) ==
    name \in {"lodash", "moment", "axios", "uuid", "ramda",
              "bluebird", "rxjs", "immutable", "classnames"}

\* PackageAnalyzer::needs_polyfills.
needs_polyfills(name) ==
    \/ StartsWith(name, "crypto")
    \/ StartsWith(name, "buffer")
    \/ Contains(name, "stream")
    \/ Contains(name, "util")

\* analyze_dependencies with three independent tests in place of the
\* if / else if chain.
PackageAnalyzer_analyze_dependencies_independent(dependencies) ==
    [ total_dependencies       |-> Cardinality(dependencies),
      problematic_dependencies |-> {d \in dependencies : is_problematic_dependency(d)},
      browser_compatible       |-> {d \in dependencies : is_browser_compatible(d)},
      needs_polyfills          |-> {d \in dependencies : needs_polyfills(d)},
      circular_dependencies    |-> <<>> ]

\* PackageAnalyzer::analyze_dependencies; dependencies is the key set of
\* package_info.dependencies (each list is kept as the set of its names).
PackageAnalyzer_analyze_dependencies(dependencies) ==
    [ total_dependencies       |-> Cardinality(dependencies),
      problematic_dependencies |-> {d \in dependencies : is_problematic_dependency(d)},
      browser_compatible       |-> {d \in dependencies :
                                       /\ ~is_problematic_dependency(d)
                                       /\ is_browser_compatible(d)},
      needs_polyfills          |-> {d \in dependencies :
                                       /\ ~is_problematic_dependency(d)
                                       /\ ~is_browser_compatible(d)
                                       /\ needs_polyfills(d)},
      circular_dependencies    |-> <<>> ]

\* The number of issues of the given level in a list of issue levels.
CountLevel(issues, level) == Cardinality({i \in DOMAIN issues : issues[i] = level})

\* is_conversion_feasible with the dependency bound made strict.
is_conversion_feasible_strict(issues, deps) ==
    LET critical_errors == CountLevel(issues, "Error")
    IN  /\ critical_errors < 5
        /\ (\/ deps.total_dependencies = 0
            \/ Cardinality(deps.problematic_dependencies) * 2 < deps.total_dependencies)

\* PackageAnalyzer::is_conversion_feasible.
is_conversion_feasible(issues, deps) ==
    LET critical_errors == CountLevel(issues, "Error")
    IN  /\ critical_errors < 5
        /\ (\/ deps.total_dependencies = 0
            \/ Cardinality(deps.problematic_dependencies) * 2 <= deps.total_dependencies)

\* NodeApiRegistry::is_incompatible.
is_incompatible(api) ==
    api \in {"fs", "child_process", "cluster", "worker_threads", "os", "net", "http", "https"}

\* NodeApiRegistry::get_polyfill (polyfillable_apis maps each name to itself).
get_polyfill(api) ==
    IF api \in {"crypto", "buffer", "events", "process", "util", "path"}
    THEN <<api>> ELSE NoneOpt

\* NodeApiRegistry::is_node_api.
is_node_api(api) == is_incompatible(api) \/ get_polyfill(api) # NoneOpt

\* The CompatibilityIssue visit_call_expr and visit_import_decl push for a
\* module name of fs, crypto, child_process or os; kind is "usage" for a
\* require() call and "import" for an import declaration.
VisitorIssue(current_file, module_name, kind) ==
    [ level    |-> IF module_name \in {"fs", "child_process"} THEN "Error" ELSE "Warning",
      message  |-> "Node.js API " \o kind \o ": " \o module_name,
      location |-> current_file,
      api      |-> <<module_name>> ]

\* CompatibilityVisitor.issues after the walk of a parsed module: one issue
\* per require()/import of fs, crypto, child_process or os.
\* (The visitor walks the tree; the model lists requires, then imports.)
CompatibilityVisitor_issues(current_file, content) ==
    LET Flagged(n) == n \in {"fs", "crypto", "child_process", "os"}
        requires   == SelectSeq(RequireCaptures(content, 1), Flagged)
        imports    == SelectSeq(ImportCaptures(content, 1), Flagged)
    IN  [k \in 1..Len(requires) |-> VisitorIssue(current_file, requires[k], "usage")]
          \o [k \in 1..Len(imports) |-> VisitorIssue(current_file, imports[k], "import")]

\* analyze_node_api_usage reporting no usage at all.
analyze_node_api_usage_none(issues) == <<>>

\* PackageAnalyzer::analyze_node_api_usage: the api of every issue that has one.
analyze_node_api_usage(issues) ==
    LET HasApi(i) == i.api # NoneOpt
        with_api  == SelectSeq(issues, HasApi)
    IN  [k \in 1..Len(with_api) |-> with_api[k].api[1]]

\* detect_module_type testing the ES-module markers before the CommonJS ones.
detect_module_type_esm_first(content) ==
    IF Contains(content, "import ") \/ Contains(content, "export ")
    THEN "EsModules"
    ELSE IF Contains(content, "module.exports") \/ Contains(content, "exports.")
    THEN "CommonJs"
    ELSE IF Contains(content, "(function (global, factory)")
    THEN "Umd"
    ELSE IF Contains(content, "(function()") \/ Contains(content, "(function ()")
    THEN "Iife"
    ELSE "Unknown"

\* PackageAnalyzer::detect_module_type.
detect_module_type(content) ==
    IF Contains(content, "module.exports") \/ Contains(content, "exports.")
    THEN "CommonJs"
    ELSE IF Contains(content, "import ") \/ Contains(content, "export ")
    THEN "EsModules"
    ELSE IF Contains(content, "(function (global, factory)")
    THEN "Umd"
    ELSE IF Contains(content, "(function()") \/ Contains(content, "(function ()")
    THEN "Iife"
    ELSE "Unknown"

\* PackageAnalyzer::regex_based_analysis: the FileAnalysis of the fallback.
regex_based_analysis(path, content) ==
    LET NodeApi(n) == is_node_api(n)
        Bad(n)     == is_incompatible(n)
        names      == RequireCaptures(content, 1)
        bad        == SelectSeq(names, Bad)
    IN  [ ok             |-> TRUE,
          module_type    |-> IF Contains(content, "module.exports")
                                  \/ Contains(content, "exports.")
                             THEN "CommonJs"
                             ELSE IF Contains(content, "import ")
                                       \/ Contains(content, "export ")
                             THEN "EsModules" ELSE "Unknown",
          node_api_usage |-> SelectSeq(names, NodeApi),
          issues         |-> [k \in 1..Len(bad) |->
                                [ level    |-> "Error",
                                  message  |-> "Incompatible Node.js API: " \o bad[k],
                                  location |-> path,
                                  api      |-> <<bad[k]>> ]] ]

\* PackageAnalyzer::analyze_file on a file the SWC parser accepts (parses)
\* or rejects: the FileAnalysis of the visitor or of the regex fallback.
analyze_file(file) ==
    IF file.parses
    THEN With(CompatibilityVisitor_issues(file.path, file.content), LAMBDA issues :
            [ ok             |-> TRUE,
              module_type    |-> detect_module_type(file.content),
              node_api_usage |-> analyze_node_api_usage(issues),
              issues         |-> issues ])
    ELSE regex_based_analysis(file.path, file.content)

\* The issue PackageAnalyzer::analyze pushes when analyze_file returns Err.
FailedToParseIssue(path) ==
    [ level |-> "Warning", message |-> "Failed to parse file", location |-> path,
      api |-> NoneOpt ]

\* The file loop of PackageAnalyzer::analyze from file k on: all_issues,
\* required_polyfills and the number of file_analyses.
RECURSIVE analyze_file_loop(_, _, _)
analyze_file_loop(files, k, acc) ==
    IF k > Len(files) THEN acc
    ELSE IF ~HasSourceExtension(files[k].path)
    THEN analyze_file_loop(files, k + 1, acc)
    ELSE With(analyze_file(files[k]), LAMBDA a :
            analyze_file_loop(files, k + 1,
                IF a.ok
                THEN [ all_issues         |-> acc.all_issues \o a.issues,
                       required_polyfills |->
                           acc.required_polyfills
                             \cup {get_polyfill(u)[1] :
                                     u \in {x \in Range(a.node_api_usage) :
                                              get_polyfill(x) # NoneOpt}},
                       file_analyses      |-> Append(acc.file_analyses, a) ]
                ELSE [acc EXCEPT !.all_issues = Append(@, FailedToParseIssue(files[k].path))]))

\* The levels of a list of issues.
LevelsOf(issues) == [k \in 1..Len(issues) |-> issues[k].level]

\* The file loop of PackageAnalyzer::analyze: all_issues (levels), for the
\* files in the order the loop visits them.
file_loop_issues(files) ==
    LevelsOf(analyze_file_loop(files, 1,
                 [all_issues |-> <<>>, required_polyfills |-> {},
                  file_analyses |-> <<>>]).all_issues)

\* calculate_compatibility_score without the clamp at zero.
calculate_compatibility_score_unclamped(issues, files) ==
    IF files = 0 THEN 0
    ELSE 100 - (CountLevel(issues, "Error") * 10 + CountLevel(issues, "Warning") * 5)

\* PackageAnalyzer::calculate_compatibility_score, in hundredths: the f32
\* value (1.0 - (errors * 0.1 + warnings * 0.05)).max(0.0) as the exact
\* number of hundredths it stands for; files is the number of file analyses.
calculate_compatibility_score(issues, files) ==
    IF files = 0 THEN 0
    ELSE LET penalty == CountLevel(issues, "Error") * 10 + CountLevel(issues, "Warning") * 5
         IN  IF 100 - penalty > 0 THEN 100 - penalty ELSE 0

\* PackageAnalyzer::analyze on the files of a PackageData: the file loop
\* and the fields of the AnalysisResult computed from it.
PackageAnalyzer_analyze_files(files) ==
    With(analyze_file_loop(files, 1, [all_issues |-> <<>>, required_polyfills |-> {},
                                      file_analyses |-> <<>>]),
         LAMBDA loop :
        [ ok                   |-> TRUE,
          compatibility_issues |-> loop.all_issues,
          required_polyfills   |-> loop.required_polyfills,
          file_analyses        |-> loop.file_analyses,
          compatibility_score  |->
              calculate_compatibility_score(LevelsOf(loop.all_issues),
                                            Len(loop.file_analyses)) ])

\* PackageAnalyzer::analyze after its file loop: analyze_dependencies,
\* then is_conversion_feasible on all issues.
analyze_verdict(all_issues, dependencies) ==
    With(PackageAnalyzer_analyze_dependencies(dependencies), LAMBDA deps :
        [ compatibility_issues |-> all_issues,
          dependency_analysis  |-> deps,
          feasible             |-> is_conversion_feasible(all_issues, deps) ])

(***************************************************************************)
(* NpmClient (src/src/npm.rs).                                             *)
(***************************************************************************)

\* NpmClient::parse_package_name: Ok(name, version) or Err.
parse_package_name(package) ==
    IF package = "" THEN [ok |-> FALSE]
    ELSE IF StartsWith(package, "@")
    THEN LET slash == RunEndNot(package, 1, {"/"})
             rest  == StrFrom(package, slash + 1)
             at    == RunEndNot(rest, 1, {"@"})
         IN  IF slash > Len(package) THEN [ok |-> FALSE]
             ELSE [ok |-> TRUE,
                   name |-> SubSeq(package, 1, slash) \o SubSeq(rest, 1, at - 1),
                   version |-> IF at > Len(rest) THEN NoneOpt ELSE <<StrFrom(rest, at + 1)>>]
    ELSE LET at == RunEndNot(package, 1, {"@"})
         IN  [ok |-> TRUE,
              name |-> SubSeq(package, 1, at - 1),
              version |-> IF at > Len(package) THEN NoneOpt
                          ELSE <<StrFrom(package, at + 1)>>]

\* s with every character of the set from replaced by to.
ReplaceChars(s, from, to) ==
    Concat([i \in 1..Len(s) |-> IF Ch(s, i) \in from THEN to ELSE Ch(s, i)])

\* The cache file of get_cached_metadata / cache_metadata.
MetadataCacheFile(name) == "cache/" \o ReplaceChars(name, {"/", "@"}, "_") \o ".json"

\* The cache file of get_cached_package_data / cache_package_data.
DataCacheFile(cache_key) ==
    "cache/" \o ReplaceChars(cache_key, {"/", "@"}, "_") \o ".data.json"

\* NpmClient::generate_mock_package_content, for the names that take its
\* is-* branch or its default branch.
generate_mock_package_content(package_name) ==
    IF StartsWith(package_name, "is-")
    THEN LET check_name == StrFrom(package_name, 4)
         IN  "\n// Mock " \o package_name \o " implementation\n"
               \o "module.exports = function(value) {\n"
               \o "    // Simple type check for " \o check_name \o "\n"
               \o "    return typeof value === '"
               \o (IF check_name = "array" THEN "object" ELSE check_name) \o "';\n"
               \o "};\n"
    ELSE LET v == ReplaceChars(package_name, {"-"}, "_")
         IN  "\n// Mock implementation for " \o package_name \o "\n"
               \o "var " \o v \o " = {\n"
               \o "    // Add mock functionality here\n"
               \o "    version: '1.0.0-mock'\n"
               \o "};\n\n"
               \o "module.exports = " \o v \o ";\n"

\* NpmClient::create_mock_package_data for the version_info the registry
\* serves; the SWC parser accepts the mock sources.
create_mock_package_data(version_info) ==
    [ total_size |-> 1024,
      files |-> << [ path    |-> IF version_info.main # NoneOpt
                                 THEN version_info.main[1] ELSE "index.js",
                     content |-> generate_mock_package_content(version_info.name),
                     parses  |-> TRUE ] >>,
      package_json |-> version_info ]

(***************************************************************************)
(* OutputGenerator (src/src/output.rs).                                    *)
(***************************************************************************)

\* str::find: the index of the first occurrence of p in s, 0 when none.
Find(s, p) ==
    LET hits == {i \in 1..(Len(s) + 1) : StartsAt(s, i, p)}
    IN  IF hits = {} THEN 0 ELSE MinOf(hits)

\* usize formatted by Display.
RECURSIVE ToStr(_)
ToStr(n) ==
    LET d == SubSeq("0123456789", (n % 10) + 1, (n % 10) + 1)
    IN  IF n < 10 THEN d ELSE ToStr(n \div 10) \o d

\* OutputGenerator::extract_polyfills: (main_code, polyfills_code).
extract_polyfills(code) ==
    LET polyfill_start == "// === Polyfills ==="
        polyfill_end   == "// === End Polyfills ==="
        start_pos      == Find(code, polyfill_start)
        end_pos        == Find(code, polyfill_end)
    IN  IF start_pos # 0 /\ end_pos # 0
        THEN [ main_code |-> SubSeq(code, 1, start_pos - 1)
                               \o StrFrom(code, end_pos + Len(polyfill_end)),
               polyfills_code |-> Trim(SubSeq(code, start_pos + Len(polyfill_start),
                                              end_pos - 1)) ]
        ELSE [ main_code |-> code, polyfills_code |-> "" ]

\* char::to_uppercase / str::to_lowercase on the modelled alphabet.
UpperOf(c) ==
    LET lo == "abcdefghijklmnopqrstuvwxyz"
        up == "ABCDEFGHIJKLMNOPQRSTUVWXYZ"
        k  == Find(lo, c)
    IN  IF c # "" /\ k # 0 THEN Ch(up, k) ELSE c

LowerOf(c) ==
    LET lo == "abcdefghijklmnopqrstuvwxyz"
        up == "ABCDEFGHIJKLMNOPQRSTUVWXYZ"
        k  == Find(up, c)
    IN  IF c # "" /\ k # 0 THEN Ch(lo, k) ELSE c

\* str::split(sep) for a one-character separator.
Split(s, sep) ==
    LET at     == {i \in 1..Len(s) : Ch(s, i) = sep}
        n      == Cardinality(at)
        kth(k) == IF k = 0 THEN 0
                  ELSE IF k = n + 1 THEN Len(s) + 1
                  ELSE CHOOSE p \in at : Cardinality({q \in at : q <= p}) = k
    IN  [k \in 1..(n + 1) |-> SubSeq(s, kth(k - 1) + 1, kth(k) - 1)]

\* OutputGenerator::to_pascal_case.
to_pascal_case(s) ==
    LET NonEmpty(part) == part # ""
        parts == SelectSeq(Split(s, "_"), NonEmpty)
        Cap(part) == UpperOf(Ch(part, 1))
                       \o Concat([i \in 1..(Len(part) - 1) |-> LowerOf(Ch(part, i + 1))])
    IN  Concat([k \in 1..Len(parts) |-> Cap(parts[k])])

\* OutputGenerator::sanitize_global_name.
sanitize_global_name(name) ==
    LET mapped == Concat([i \in 1..Len(name) |->
                            IF Ch(name, i) \in AlphaNum THEN Ch(name, i) ELSE "_"])
        sanitized == IF mapped # "" /\ Ch(mapped, 1) \in Digits
                     THEN "_" \o mapped ELSE mapped
    IN  to_pascal_case(sanitized)

\* indent_helper.
indent_helper(content, indent_size) ==
    LET indent == Concat([k \in 1..indent_size |-> " "])
        ls     == Lines(content)
    IN  Join([k \in 1..Len(ls) |->
                 IF Trim(ls[k]) = "" THEN ls[k] ELSE indent \o ls[k]], "\n")

\* OutputGenerator::create_template_context.
create_template_context(bundled_code, opts, package_info, generated_at) ==
    LET output_name == IF opts.name # NoneOpt THEN opts.name[1] ELSE package_info.name
        parts       == extract_polyfills(bundled_code.code)
    IN  [ package_name    |-> package_info.name,
          package_version |-> package_info.version,
          output_name     |-> output_name,
          namespace       |-> opts.namespace,
          global_name     |-> sanitize_global_name(output_name),
          bundled_code    |-> parts.main_code,
          polyfills_code  |-> parts.polyfills_code,
          generated_at    |-> generated_at,
          has_polyfills   |-> Trim(parts.polyfills_code) # "",
          has_namespace   |-> opts.namespace # NoneOpt,
          is_minified     |-> opts.minify,
          original_size   |-> bundled_code.unminified_size,
          bundle_size     |-> Len(bundled_code.code) ]

\* CARGO_PKG_VERSION of the crate.
GeneratorVersion == "0.1.0"

\* The "outsystems" template rendered on a context: the text of
\* default_outsystems_template with its tags expanded (the mock packages
\* carry no description; the names rendered contain no character that
\* Handlebars escapes).
render_outsystems(ctx) ==
    "/**\n"
      \o " * " \o ctx.package_name \o " v" \o ctx.package_version
      \o " - OutSystems Compatible\n"
      \o " * \n"
      \o " *\n"
      \o " * Generated by Pakto v" \o GeneratorVersion \o " on " \o ctx.generated_at \o "\n"
      \o " * Target: Es5\n"
      \o " *\n"
      \o " * This bundle is optimized for OutSystems platform\n"
      \o " */\n"
      \o "(function(global, factory) {\n"
      \o "  'use strict';\n\n"
      \o "  // Universal Module Definition (UMD) pattern for maximum compatibility\n"
      \o "  if (typeof module === 'object' && typeof module.exports === 'object') {\n"
      \o "    // Node.js environment\n"
      \o "    module.exports = factory();\n"
      \o "  } else if (typeof define === 'function' && define.amd) {\n"
      \o "    // AMD environment\n"
      \o "    define(factory);\n"
      \o "  } else {\n"
      \o "    // Browser globals - OutSystems target\n"
      \o (IF ctx.has_namespace
          THEN "    global." \o ctx.namespace[1] \o " = global." \o ctx.namespace[1]
                 \o " || {};\n"
                 \o "    global." \o ctx.namespace[1] \o "." \o ctx.global_name
                 \o " = factory();\n"
          ELSE "    global." \o ctx.global_name \o " = factory();\n")
      \o "  }\n"
      \o "})(typeof window !== 'undefined' ? window : this, function() {\n"
      \o "  'use strict';\n\n"
      \o (IF ctx.has_polyfills
          THEN "  // ================================================================\n"
                 \o "  // Polyfills for Browser Compatibility\n"
                 \o "  // ================================================================\n"
                 \o "  " \o indent_helper(ctx.polyfills_code, 2) \o "\n\n"
          ELSE "")
      \o "  // ================================================================\n"
      \o "  // Main Module Code\n"
      \o "  // ================================================================\n"
      \o "  " \o indent_helper(ctx.bundled_code, 2) \o "\n\n"
      \o "  // ================================================================\n"
      \o "  // Module Exports\n"
      \o "  // ================================================================\n"
      \o (IF Trim(ctx.bundled_code) # ""
          THEN "  return typeof module !== 'undefined' && module.exports ? module.exports : {};\n"
          ELSE "  return {};\n")
      \o "});\n\n"
      \o "// Bundle Information\n"
      \o "// Original size: " \o ToStr(ctx.original_size) \o " bytes\n"
      \o "// Bundle size: " \o ToStr(ctx.bundle_size) \o " bytes\n"
      \o (IF ctx.is_minified THEN "// Code has been minified\n" ELSE "")

\* OutputGenerator::clean_whitespace.
RECURSIVE DropRepeatedBlank(_, _)
DropRepeatedBlank(ls, prev_was_empty) ==
    IF ls = <<>> THEN <<>>
    ELSE LET is_empty == Trim(Head(ls)) = ""
         IN  (IF ~is_empty \/ ~prev_was_empty THEN <<Head(ls)>> ELSE <<>>)
               \o DropRepeatedBlank(Tail(ls), is_empty)

clean_whitespace(code) ==
    LET ls == Lines(code)
    IN  Join(DropRepeatedBlank([k \in 1..Len(ls) |-> TrimEnd(ls[k])], FALSE), "\n")

\* OutputGenerator::validate_output: TRUE when the text passes.
validate_output(code) ==
    /\ CountCh(code, "{") = CountCh(code, "}")
    /\ CountCh(code, "(") = CountCh(code, ")")
    /\ ~Contains(code, "undefined undefined")
    /\ ~Contains(code, "null null")

\* OutputGenerator::generate on a template that rendered (minify off):
\* post_process_output of the rendered text.
generate(bundled_code, opts, package_info, generated_at) ==
    With(render_outsystems(create_template_context(bundled_code, opts, package_info,
                                                   generated_at)), LAMBDA rendered :
    With(clean_whitespace(rendered), LAMBDA processed :
        IF validate_output(processed)
        THEN [ok |-> TRUE, code |-> processed]
        ELSE [ok |-> FALSE, err |-> [type |-> "TransformError"]]))

\* Converter::determine_output_path with the default output directory and
\* naming pattern.
determine_output_path(package, opts) ==
    IF opts.output_path # NoneOpt THEN opts.output_path[1]
    ELSE LET name == IF opts.name # NoneOpt THEN opts.name[1] ELSE package
         IN  "./dist/" \o name \o "-outsystems.js"

(***************************************************************************)
(* State.                                                                  *)
(***************************************************************************)
VARIABLES
    config,        \* Config.bundle: max_size, exclude_dependencies, force_inline
    package,       \* the package argument of Converter::convert
    registry,      \* what the NPM registry answers for the package's name
    disk,          \* the files written so far: path -> content
    now,           \* SystemTime::now(), in seconds
    options,       \* ConvertOptions
    pc,            \* the step the running call is at
    package_data,  \* the PackageData in hand (under SpecFeasible: the issue
                   \* levels its files produce and its declared dependencies)
    analysis,      \* AnalysisResult, once computed
    transformed,   \* TransformedPackage, once computed
    bundled,       \* what Bundler::bundle returned, once called
    events,        \* the stages executed so far, in order
    outcome        \* what Converter::convert returned, once it returned

vars == <<config, package, registry, disk, now, options, pc, package_data, analysis,
          transformed, bundled, events, outcome>>

\* The value of a variable that holds nothing yet.
None == [none |-> TRUE]

(***************************************************************************)
(* Bounds and input sets.                                                  *)
(***************************************************************************)

\* Longest list of compatibility issues.
MaxIssues == 6

\* Most snippets concatenated into one main-code text.
MaxSnippets == 2

\* default_max_size().
DefaultMaxSize == 5 * 1024 * 1024

\* A configured bundle budget small enough for assembled code to exceed.
SmallMaxSize == 60

IssueLevels == {"Error", "Warning", "Info"}

\* All lists of issue levels of length at most n.
RECURSIVE IssueLists(_)
IssueLists(n) ==
    IF n = 0 THEN {<<>>}
    ELSE LET shorter == IssueLists(n - 1)
         IN  shorter \cup {Append(l, v) : l \in {x \in shorter : Len(x) = n - 1},
                                          v \in IssueLevels}

\* Names of declared dependencies: three problematic ones (native-util also
\* has the name of a package that needs polyfills), one browser compatible,
\* one that needs polyfills and one of no class.
DeclaredNames ==
    {"sqlite3", "node-gyp", "native-util", "lodash", "crypto-js", "express"}

\* Pieces of main-code text.
Snippets ==
    { "const lodash = require('lodash'); lodash.map(x,y);",
      "require('./a');",
      "__a.f();",
      "require('fs');",
      "import './a';",
      "function f() {\n",
      "}\n",
      "function f() {\n}\n",
      "(",
      "\n\n\n" }

\* All concatenations of at most n snippets.
RECURSIVE Codes(_)
Codes(n) ==
    IF n = 0 THEN {""}
    ELSE LET shorter == Codes(n - 1)
         IN  shorter \cup {c \o s : c \in shorter, s \in Snippets}

\* BundleConfig::default() lists.
DefaultExclude == {"fsevents", "node-gyp"}

\* The bundle configurations explored.
Configs ==
    { [max_size |-> m, exclude_dependencies |-> e, force_inline |-> f] :
         m \in {DefaultMaxSize, SmallMaxSize},
         e \in {DefaultExclude, {"lodash"}},
         f \in {{}, {"lodash"}} }

Strategies == {"Inline", "Selective", "External", "Hybrid"}

\* The exclude lists passed to bundle().
ExcludeLists == {<<>>, <<"./a">>}

(***************************************************************************)
(* Specification SpecFeasible: PackageAnalyzer's dependency analysis and   *)
(* feasibility verdict on every issue list and dependency map.             *)
(***************************************************************************)
InitFeasible ==
    /\ package_data \in [issues : IssueLists(MaxIssues),
                         dependencies : SUBSET DeclaredNames]
    /\ config = None
    /\ package = None
    /\ registry = None
    /\ disk = <<>>
    /\ now = 0
    /\ options = None
    /\ pc = "analyze"
    /\ analysis = None
    /\ transformed = None
    /\ bundled = None
    /\ events = <<>>
    /\ outcome = None

\* The tail of PackageAnalyzer::analyze: analyze_dependencies, then
\* is_conversion_feasible on all issues.
AnalyzeVerdict ==
    /\ pc = "analyze"
    /\ analysis' = analyze_verdict(package_data.issues, package_data.dependencies)
    /\ pc' = "done"
    /\ UNCHANGED <<now, config, package, registry, disk, package_data, options, transformed,
                   bundled, events, outcome>>

NextFeasible == AnalyzeVerdict

SpecFeasible == InitFeasible /\ [][NextFeasible]_vars

(***************************************************************************)
(* Specification SpecBundle: one call of Bundler::bundle on every main     *)
(* code, configuration, strategy and exclude list.                         *)
(***************************************************************************)
InitBundle ==
    /\ config \in Configs
    /\ transformed \in [code : Codes(MaxSnippets)]
    /\ options \in [bundle_strategy : Strategies, exclude_dependencies : ExcludeLists]
    /\ package = None
    /\ registry = None
    /\ disk = <<>>
    /\ now = 0
    /\ package_data = None
    /\ pc = "bundle"
    /\ analysis = None
    /\ bundled = None
    /\ events = <<>>
    /\ outcome = None

\* The key set of used_exports in bundle_selective.
SelectiveKeys ==
    DOMAIN analyze_used_exports(transformed.code,
               analyze_dependencies(config, transformed.code).bundled_dependencies)

\* Bundler::bundle.
Bundle ==
    /\ pc = "bundle"
    /\ \E order \in (IF options.bundle_strategy = "Selective"
                     THEN KeyOrders(SelectiveKeys) ELSE {<<>>}) :
          bundled' = bundle(config, transformed.code, options.bundle_strategy,
                            options.exclude_dependencies, order)
    /\ pc' = "done"
    /\ UNCHANGED <<now, config, package, registry, disk, package_data, options, analysis,
                   transformed, events, outcome>>

NextBundle == Bundle

SpecBundle == InitBundle /\ [][NextBundle]_vars

(***************************************************************************)
(* Specification Spec: one call of Converter::convert, step by step, on    *)
(* every package argument, registry answer, configuration and option set.  *)
(***************************************************************************)

\* The package arguments: a bare name, a pinned version the registry has,
\* a pinned version it lacks, and the empty string.
Packages == {"is-array", "left-pad@1.0.0", "left-pad@2.0.0", ""}

\* The version the registry serves and tags latest.
ServedVersion == "1.0.0"

\* The main fields the registry serves.
Mains == {NoneOpt, <<"lib/main.js">>, <<"README.md">>}

\* The declared dependencies the registry serves: none, one harmless, one
\* problematic, half problematic, and mostly problematic.
DependencySets ==
    { {}, {"lodash"}, {"sqlite3"}, {"sqlite3", "lodash"},
      {"sqlite3", "node-gyp", "lodash"} }

\* What the registry answers.
Registries ==
    { [status |-> "ok", main |-> m, dependencies |-> ds] :
         m \in Mains, ds \in DependencySets }
      \cup { [status |-> st, main |-> NoneOpt, dependencies |-> {}] :
                st \in {"not_found", "unreachable"} }

\* The bundle configurations explored end to end.
ConvertConfigs ==
    { [max_size |-> m, exclude_dependencies |-> DefaultExclude, force_inline |-> {}] :
         m \in {DefaultMaxSize, SmallMaxSize} }

\* The option sets explored end to end (ConvertOptions::default() but for
\* the strategy and the exclude list).
ConvertOptionSets ==
    { [bundle_strategy |-> st, exclude_dependencies |-> ex, name |-> NoneOpt,
       namespace |-> NoneOpt, minify |-> FALSE, output_path |-> NoneOpt] :
         st \in Strategies, ex \in ExcludeLists }

\* The instants chrono::Utc::now() may return during generation.
Timestamps == {"2024-01-01T00:00:00+00:00", "2024-01-01T00:00:01+00:00"}

\* The NpmPackageMetadata the registry serves for a name.
RegistryMetadata(name, reg) ==
    [ latest   |-> <<ServedVersion>>,
      versions |-> (ServedVersion :> [ name         |-> name,
                                       version      |-> ServedVersion,
                                       main         |-> reg.main,
                                       dependencies |-> reg.dependencies ]) ]

\* The ttl cache_metadata gives an entry: one hour.
MetadataTtl == 3600

\* The ttl cache_package_data gives an entry: 24 hours.
PackageDataTtl == 24 * 3600

\* NpmClient::get_cached_metadata at time t: the cached metadata, or none
\* when the file is missing or the entry has expired.
get_cached_metadata(name, dsk, t) ==
    LET cache_file == MetadataCacheFile(name)
    IN  IF cache_file \notin DOMAIN dsk THEN NoneOpt
        ELSE IF t > dsk[cache_file].cached_at + dsk[cache_file].ttl THEN NoneOpt
        ELSE <<dsk[cache_file].metadata>>

\* NpmClient::get_cached_package_data at time t.
get_cached_package_data(cache_key, dsk, t) ==
    LET cache_file == DataCacheFile(cache_key)
    IN  IF cache_file \notin DOMAIN dsk THEN NoneOpt
        ELSE IF t > dsk[cache_file].cached_at + dsk[cache_file].ttl THEN NoneOpt
        ELSE <<dsk[cache_file].data>>

\* NpmClient::get_package_metadata at time t.  fetched tells whether the
\* request to the registry was sent.
get_package_metadata(name, reg, dsk, t) ==
    With(get_cached_metadata(name, dsk, t), LAMBDA cached :
        IF cached # NoneOpt
        THEN [ok |-> TRUE, metadata |-> cached[1], disk |-> dsk, fetched |-> FALSE]
        ELSE IF reg.status = "unreachable"
        THEN [ok |-> FALSE, err |-> [type |-> "NetworkError"], disk |-> dsk,
              fetched |-> TRUE]
        ELSE IF reg.status = "not_found"
        THEN [ok |-> FALSE, err |-> [type |-> "PackageNotFound"], disk |-> dsk,
              fetched |-> TRUE]
        ELSE [ok |-> TRUE, metadata |-> RegistryMetadata(name, reg), fetched |-> TRUE,
              disk |-> (MetadataCacheFile(name) :>
                           [metadata  |-> RegistryMetadata(name, reg),
                            cached_at |-> t,
                            ttl       |-> MetadataTtl]) @@ dsk])

\* The version lookup shared by get_package_info and download_package.
ResolveVersion(package_name, metadata) ==
    LET version == IF package_name.version # NoneOpt THEN package_name.version
                   ELSE metadata.latest
    IN  IF version = NoneOpt \/ version[1] \notin DOMAIN metadata.versions
        THEN [ok |-> FALSE, err |-> [type |-> "VersionNotFound"]]
        ELSE [ok |-> TRUE, version |-> version[1],
              version_info |-> metadata.versions[version[1]]]

\* NpmClient::get_package_info at time t.
get_package_info(pkg, reg, dsk, t) ==
    With(parse_package_name(pkg), LAMBDA package_name :
        IF ~package_name.ok
        THEN [ok |-> FALSE, err |-> [type |-> "InvalidPackage"], disk |-> dsk]
        ELSE
    With(get_package_metadata(package_name.name, reg, dsk, t), LAMBDA meta :
        IF ~meta.ok THEN meta
        ELSE
    With(ResolveVersion(package_name, meta.metadata), LAMBDA resolved :
        IF ~resolved.ok THEN [ok |-> FALSE, err |-> resolved.err, disk |-> meta.disk]
        ELSE [ok |-> TRUE, disk |-> meta.disk,
              info |-> [ name         |-> resolved.version_info.name,
                         version      |-> resolved.version_info.version,
                         main         |-> resolved.version_info.main,
                         dependencies |-> resolved.version_info.dependencies ]])))

\* NpmClient::download_package at time t.  fetched tells whether the
\* request for the registry metadata was sent, cached whether the package
\* data came from the data cache.
download_package(pkg, reg, dsk, t) ==
    With(parse_package_name(pkg), LAMBDA package_name :
        IF ~package_name.ok
        THEN [ok |-> FALSE, err |-> [type |-> "InvalidPackage"], disk |-> dsk,
              fetched |-> FALSE, cached |-> FALSE]
        ELSE
    With(package_name.name \o "@" \o (IF package_name.version # NoneOpt
                                      THEN package_name.version[1] ELSE "latest"),
         LAMBDA cache_key :
    With(get_cached_package_data(cache_key, dsk, t), LAMBDA cached_data :
        IF cached_data # NoneOpt
        THEN [ok |-> TRUE, data |-> cached_data[1], disk |-> dsk,
              fetched |-> FALSE, cached |-> TRUE]
        ELSE
    With(get_package_metadata(package_name.name, reg, dsk, t), LAMBDA meta :
        IF ~meta.ok THEN meta @@ [cached |-> FALSE]
        ELSE
    With(ResolveVersion(package_name, meta.metadata), LAMBDA resolved :
        IF ~resolved.ok
        THEN [ok |-> FALSE, err |-> resolved.err, disk |-> meta.disk,
              fetched |-> meta.fetched, cached |-> FALSE]
        ELSE
    With(create_mock_package_data(resolved.version_info), LAMBDA data :
        [ok |-> TRUE, data |-> data, fetched |-> meta.fetched, cached |-> FALSE,
         disk |-> (DataCacheFile(package_name.name \o "@" \o resolved.version) :>
                      [data |-> data, cached_at |-> t, ttl |-> PackageDataTtl])
                     @@ meta.disk]))))))

\* PackageAnalyzer::analyze on a PackageData.
PackageAnalyzer_analyze(pd) ==
    With(analyze_verdict(file_loop_issues(pd.files), pd.package_json.dependencies),
         LAMBDA verdict :
        [ package_info         |-> [ name    |-> pd.package_json.name,
                                     version |-> pd.package_json.version,
                                     main    |-> pd.package_json.main ],
          compatibility_issues |-> verdict.compatibility_issues,
          dependency_analysis  |-> verdict.dependency_analysis,
          feasible             |-> verdict.feasible ])

Init ==
    /\ config \in ConvertConfigs
    /\ package \in Packages
    /\ registry \in Registries
    /\ disk = <<>>
    /\ now = 0
    /\ options \in ConvertOptionSets
    /\ pc = "convert"
    /\ package_data = None
    /\ analysis = None
    /\ transformed = None
    /\ bundled = None
    /\ events = <<>>
    /\ outcome = None

\* convert returns Err(e).
Fail(e) ==
    /\ outcome' = [ok |-> FALSE, err |-> e]
    /\ pc' = "done"

\* Step 1 of convert, Converter::analyze: get_package_info, download_package,
\* analyzer.analyze.
ConvertAnalyze ==
    /\ pc = "convert"
    /\ \E info \in {get_package_info(package, registry, disk, now)} :
       \E dl \in {IF info.ok THEN download_package(package, registry, info.disk, now)
                   ELSE info} :
           IF ~info.ok
           THEN /\ Fail(info.err)
                /\ disk' = info.disk
                /\ UNCHANGED <<package_data, analysis, events>>
           ELSE IF ~dl.ok
           THEN /\ Fail(dl.err)
                /\ disk' = dl.disk
                /\ UNCHANGED <<package_data, analysis, events>>
           ELSE /\ disk' = dl.disk
                /\ package_data' = dl.data
                /\ analysis' = PackageAnalyzer_analyze(dl.data)
                /\ events' = Append(events, "analysis")
                /\ pc' = "gate"
                /\ UNCHANGED outcome
    /\ UNCHANGED <<now, config, package, registry, options, transformed, bundled>>

\* The feasibility check left out: convert goes on whatever the verdict.
FeasibilityGate_ignored ==
    /\ pc = "gate"
    /\ pc' = "download"
    /\ events' = Append(events, "feasibility_check")
    /\ UNCHANGED <<now, config, package, registry, disk, options, package_data, analysis,
                   transformed, bundled, outcome>>

\* The feasibility check that follows the analysis.
FeasibilityGate ==
    /\ pc = "gate"
    /\ IF ~analysis.feasible
       THEN Fail([type |-> "IncompatibleApi"])
       ELSE pc' = "download" /\ UNCHANGED outcome
    /\ events' = Append(events, "feasibility_check")
    /\ UNCHANGED <<now, config, package, registry, disk, options, package_data, analysis,
                   transformed, bundled>>

\* Step 2 of convert: download_package.
Download ==
    /\ pc = "download"
    /\ \E dl \in {download_package(package, registry, disk, now)} :
           /\ disk' = dl.disk
           /\ IF dl.ok
              THEN /\ package_data' = dl.data
                   /\ pc' = "transform"
                   /\ UNCHANGED outcome
              ELSE /\ Fail(dl.err)
                   /\ UNCHANGED package_data
    /\ events' = Append(events, "download")
    /\ UNCHANGED <<now, config, package, registry, options, analysis, transformed, bundled>>

\* Step 3 of convert: CodeTransformer::transform_package, which transforms
\* and joins the files and then injects the polyfills.
Transform ==
    /\ pc = "transform"
    /\ LET visited == {package_data.files[k].path : k \in
                          {j \in 1..Len(package_data.files) :
                              HasSourceExtension(package_data.files[j].path)}}
       IN  \E order \in KeyOrders(visited) :
              transformed' = transform_package(package_data.files, order, options,
                                               analysis.package_info.name,
                                               analysis.package_info.main)
    /\ events' = events \o <<"transformation", "polyfill_injection">>
    /\ pc' = "bundle_step"
    /\ UNCHANGED <<now, config, package, registry, disk, options, package_data, analysis,
                   bundled, outcome>>

\* Step 4 of convert: Bundler::bundle.
ConvertBundle ==
    /\ pc = "bundle_step"
    /\ LET keys == DOMAIN analyze_used_exports(transformed.code,
                      analyze_dependencies(config, transformed.code).bundled_dependencies)
       IN  \E order \in (IF options.bundle_strategy = "Selective"
                         THEN KeyOrders(keys) ELSE {<<>>}) :
              \E r \in {bundle(config, transformed.code, options.bundle_strategy,
                                options.exclude_dependencies, order)} :
                  /\ bundled' = r
                  /\ IF r.ok THEN pc' = "generate" /\ UNCHANGED outcome
                     ELSE Fail(r.err)
    /\ events' = Append(events, "bundling")
    /\ UNCHANGED <<now, config, package, registry, disk, options, package_data, analysis,
                   transformed>>

\* Step 5 of convert: determine_output_path and OutputGenerator::generate.
Generate ==
    /\ pc = "generate"
    /\ \E generated_at \in Timestamps :
          \E g \in {generate(bundled, options, analysis.package_info, generated_at)} :
              IF g.ok
              THEN /\ outcome' = [ok |-> TRUE, written |-> FALSE,
                                  output_path |-> determine_output_path(package, options),
                                  final_code |-> g.code]
                   /\ pc' = "write"
              ELSE Fail(g.err)
    /\ events' = Append(events, "output_generation")
    /\ UNCHANGED <<now, config, package, registry, disk, options, package_data, analysis,
                   transformed, bundled>>

\* Step 6 of convert: std::fs::write, which the file system may refuse, and
\* the return of the ConvertResult.
WriteOutput ==
    /\ pc = "write"
    /\ \E write_ok \in BOOLEAN :
          IF write_ok
          THEN /\ disk' = (outcome.output_path :> outcome.final_code) @@ disk
               /\ outcome' = [outcome EXCEPT !.written = TRUE]
               /\ pc' = "done"
          ELSE /\ Fail([type |-> "Io"])
               /\ UNCHANGED disk
    /\ events' = Append(events, "write")
    /\ UNCHANGED <<now, config, package, registry, options, package_data, analysis,
                   transformed, bundled>>

Next ==
    \/ ConvertAnalyze
    \/ FeasibilityGate
    \/ Download
    \/ Transform
    \/ ConvertBundle
    \/ Generate
    \/ WriteOutput

Spec == Init /\ [][Next]_vars

(***************************************************************************)
(* Properties.                                                             *)
(***************************************************************************)

\* A call of PackageAnalyzer::analyze has returned its result.
Analyzed == pc = "done" /\ analysis # None

\* The number of Error-level issues of the package, counted on the input.
InputErrors ==
    LET IsError(l) == l = "Error"
    IN  Len(SelectSeq(package_data.issues, IsError))

\* C1: the verdict is feasible exactly when there are fewer than 5
\* Error-level issues and either no dependency is declared or at most half
\* of the declared dependencies are problematic; the boundary
\* 2 * problematic = total is feasible, and without declared dependencies
\* the total is 0 and the verdict depends on the error count alone.
C1_FeasibleIff ==
    Analyzed =>
        LET total       == analysis.dependency_analysis.total_dependencies
            problematic == Cardinality(analysis.dependency_analysis.problematic_dependencies)
        IN  /\ analysis.feasible <=>
                  (InputErrors < 5 /\ (total = 0 \/ 2 * problematic <= total))
            /\ (2 * problematic = total => (analysis.feasible <=> InputErrors < 5))
            /\ (package_data.dependencies = {} =>
                   total = 0 /\ (analysis.feasible <=> InputErrors < 5))

\* C1 witness: four declared dependencies, two of them problematic, four
\* errors, and the verdict is feasible.
C1_Witness ==
    /\ Analyzed
    /\ analysis.dependency_analysis.total_dependencies = 4
    /\ Cardinality(analysis.dependency_analysis.problematic_dependencies) = 2
    /\ InputErrors = 4
    /\ analysis.feasible

\* A call of Bundler::bundle has returned.
BundleReturned == pc = "done" /\ bundled # None

\* A call of Bundler::bundle has returned Ok.
BundleOk == BundleReturned /\ bundled.ok

\* Braces and parentheses of a text are balanced by count.
Balanced(code) ==
    /\ CountCh(code, "{") = CountCh(code, "}")
    /\ CountCh(code, "(") = CountCh(code, ")")

\* The iteration orders bundle_selective may have seen in this call.
OrdersOfCall ==
    IF options.bundle_strategy = "Selective" THEN KeyOrders(SelectiveKeys) ELSE {<<>>}

\* The text optimize_bundle hands to validate_bundle in this call, when the
\* Selective strategy iterated in the given order.
ValidatedText(order) ==
    clean_bundle(deduplicate_code(
        AssembleByStrategy(transformed.code, options.bundle_strategy,
            analyze_dependencies(config, transformed.code),
            create_bundle_options(config, options.bundle_strategy,
                                  options.exclude_dependencies),
            order)))

\* C2: a bundle that returns Ok returns code with as many "{" as "}", as
\* many "(" as ")", and of at most config.bundle.max_size bytes.
C2_OkIsValidated ==
    BundleOk =>
        /\ Balanced(bundled.code)
        /\ Len(bundled.code) <= config.max_size

\* C2 witness: an Ok bundle under the small budget whose code holds braces
\* and parentheses.
C2_Witness ==
    /\ BundleOk
    /\ config.max_size = SmallMaxSize
    /\ CountCh(bundled.code, "{") > 0
    /\ CountCh(bundled.code, "(") > 0

\* C3: a failed validation reports the violated check: unbalanced braces or
\* parentheses give AssemblyImbalance, an oversize text gives
\* BundleTooLarge carrying the actual length and the configured maximum.
C3_ErrorMatchesCheck ==
    (BundleReturned /\ ~bundled.ok) =>
        \A order \in OrdersOfCall :
            LET text == ValidatedText(order)
            IN  /\ ~Balanced(text) => bundled.err.type = "AssemblyImbalance"
                /\ (Balanced(text) /\ Len(text) > config.max_size) =>
                       bundled.err = [type |-> "BundleTooLarge",
                                      size |-> Len(text), max |-> config.max_size]

\* The dependency names analyze_dependencies detects in the main code.
Detected == Range(RequireCaptures(transformed.code, 1) \o ImportCaptures(transformed.code, 1))

\* C6: force-inline wins over exclude, exclude wins over the default
\* heuristic (bundle relative specifiers, never a Node built-in).
C6_Precedence ==
    BundleOk =>
        \A d \in Detected :
            LET isBundled == d \in Range(bundled.bundled_dependencies)
            IN  /\ d \in config.force_inline => isBundled
                /\ (d \in config.exclude_dependencies /\ d \notin config.force_inline)
                       => ~isBundled
                /\ (d \notin config.exclude_dependencies /\ d \notin config.force_inline)
                       => (isBundled <=> /\ d \notin BundlerBuiltins
                                         /\ (StartsWith(d, ".") \/ StartsWith(d, "/")))

\* A sequence holds no element twice.
NoDuplicates(q) == \A i, j \in DOMAIN q : i # j => q[i] # q[j]

\* C7: under Inline no name occurs twice in bundled_dependencies.
C7_InlineNoDuplicates ==
    (BundleOk /\ options.bundle_strategy = "Inline") =>
        NoDuplicates(bundled.bundled_dependencies)

\* The main code holds a property access on the bound name of dependency d.
HasUsage(d) == UsageCaptures(transformed.code, 1, dependency_to_variable_name(d)) # <<>>

\* C8: under Selective a dependency without detected usage has no section
\* in the output and is not in bundled_dependencies.
C8_SelectiveDropsUnused ==
    (BundleOk /\ options.bundle_strategy = "Selective") =>
        \A d \in Detected :
            ~HasUsage(d) =>
                /\ d \notin Range(bundled.bundled_dependencies)
                /\ ~Contains(bundled.code, "// === Dependency: " \o d \o " ")

\* C9: with the default configuration, the lodash example under Selective
\* yields a stub keeping only map and bundled_dependencies = ["lodash"].
C9_LodashSelective ==
    ( /\ BundleReturned
      /\ transformed.code = "const lodash = require('lodash'); lodash.map(x,y);"
      /\ options.bundle_strategy = "Selective"
      /\ config = [max_size |-> DefaultMaxSize,
                   exclude_dependencies |-> DefaultExclude, force_inline |-> {}] ) =>
        /\ bundled.ok
        /\ bundled.bundled_dependencies = <<"lodash">>
        /\ Contains(bundled.code, "// Tree-shaken module (keeping: map)")

\* Dependency d matches the exclusions in force for this call: the
\* configured exclude list or a pattern of the list passed to bundle().
Excluded(d) ==
    \/ d \in config.exclude_dependencies
    \/ \E k \in DOMAIN options.exclude_dependencies :
           RegexIsMatch(options.exclude_dependencies[k], d)

\* Dependency d is one the bundler resolves at all: force-inlined, or a
\* relative or absolute specifier that is no Node built-in.
Inlinable(d) ==
    /\ d \notin BundlerBuiltins
    /\ (d \in config.force_inline \/ StartsWith(d, ".") \/ StartsWith(d, "/"))

\* C10: under Inline a detected dependency the bundler resolves has an
\* inlined factory section before the main code exactly when it is not
\* excluded, by the configuration or by the list passed to bundle().
C10_InlineIffNotExcluded ==
    (BundleOk /\ options.bundle_strategy = "Inline") =>
        \A d \in {x \in Detected : Inlinable(x)} :
            Contains(bundled.code, "// === Dependency: " \o d \o " ===\n  var ")
                <=> ~Excluded(d)

\* The positions of a stage in the history of the call.
At(stage) == {i \in DOMAIN events : events[i] = stage}

\* Every occurrence of stage a precedes every occurrence of stage b, and b
\* occurs only once a has.
Precedes(a, b) ==
    /\ \A i \in At(a), j \in At(b) : i < j
    /\ At(b) # {} => At(a) # {}

\* C4: the stages of convert occur in the order analysis, feasibility
\* check, transformation, bundling, polyfill injection; injection never
\* happens before bundling has produced its body.
C4_StageOrder ==
    /\ Precedes("analysis", "feasibility_check")
    /\ Precedes("feasibility_check", "transformation")
    /\ Precedes("transformation", "bundling")
    /\ Precedes("bundling", "polyfill_injection")

\* The analysis of the package is in and its verdict is infeasible.
Infeasible == analysis # None /\ ~analysis.feasible

\* C5: on an infeasible verdict convert returns an error and runs neither
\* transform_package, bundle, the output generation nor the output write.
C5_InfeasibleIsHardFailure ==
    Infeasible =>
        /\ At("transformation") = {} /\ transformed = None
        /\ At("bundling") = {} /\ bundled = None
        /\ At("output_generation") = {}
        /\ At("write") = {}
        /\ determine_output_path(package, options) \notin DOMAIN disk
        /\ pc \in {"gate", "done"}
        /\ pc = "done" => (~outcome.ok /\ outcome.err.type = "IncompatibleApi")

\* C5 witness: convert has returned on a package whose verdict is
\* infeasible.
C5_Witness ==
    /\ Infeasible
    /\ pc = "done"
    /\ At("feasibility_check") # {}
    /\ ~outcome.ok

(***************************************************************************)
(* Properties of the Hybrid and External strategies (SpecBundle).          *)
(***************************************************************************)

\* The output holds the inlined section bundle_hybrid writes for d.
HybridInlined(d) == Contains(bundled.code, "// === Inlined: " \o d \o " ===")

\* The output holds the external binding bundle_hybrid writes for d.
HybridExternal(d) ==
    Contains(bundled.code, " = global." \o dependency_to_global_name(d)
                             \o " || require('" \o d \o "');")

\* Dependency d matches a pattern of the exclude list passed to bundle().
MatchesExcludePattern(d) ==
    \E k \in DOMAIN options.exclude_dependencies :
        RegexIsMatch(options.exclude_dependencies[k], d)

\* The size estimate of d is below the inline threshold of the call.
BelowInlineThreshold(d) ==
    Len(d) * 100 < create_bundle_options(config, options.bundle_strategy,
                                         options.exclude_dependencies).max_inline_size

\* C11: under Hybrid every dependency the strategy places follows the first
\* matching rule: force-include => inlined; else exclude-pattern match =>
\* dropped (no inlined section, no external binding); else below the inline
\* threshold => inlined; otherwise => external.
C11_HybridDecisionOrder ==
    (BundleOk /\ options.bundle_strategy = "Hybrid") =>
        \A d \in Range(bundled.bundled_dependencies) :
            IF d \in config.force_inline
            THEN HybridInlined(d)
            ELSE IF MatchesExcludePattern(d)
            THEN ~HybridInlined(d) /\ ~HybridExternal(d)
            ELSE IF BelowInlineThreshold(d)
            THEN HybridInlined(d) /\ ~HybridExternal(d)
            ELSE HybridExternal(d) /\ ~HybridInlined(d)

\* The positions at which pattern p occurs in text s.
Occurrences(s, p) == {i \in 1..Len(s) : StartsAt(s, i, p)}

\* The runtime guard bundle_external writes for dependency d, up to the
\* descriptive error it throws.
ExternalGuard(d) ==
    "  if (typeof " \o dependency_to_global_name(d) \o " === 'undefined') {\n"
      \o "    throw new Error('External dependency not found: " \o d \o "');\n"

\* C12: under External no detected dependency is inlined, and each detected
\* dependency has exactly one runtime guard, placed before the main code,
\* that throws an error naming it when its global binding is absent.
C12_ExternalOneGuardEach ==
    (BundleOk /\ options.bundle_strategy = "External") =>
        \A d \in Detected :
            /\ ~Contains(bundled.code, "// === Dependency: " \o d \o " ===")
            /\ ~HybridInlined(d)
            /\ Cardinality(Occurrences(bundled.code, ExternalGuard(d))) = 1
            /\ \A i \in Occurrences(bundled.code, ExternalGuard(d)) :
                   \E j \in Occurrences(bundled.code, "  // === Main Module ===\n") : i < j

(***************************************************************************)
(* Specification SpecCycles: the two circular-dependency detectors on the  *)
(* dependency graph the registry serves (package -> names of its direct    *)
(* dependencies), starting from every package of the graph.                *)
(***************************************************************************)

\* The packages of the dependency graph.
GraphNodes == {"A", "B", "C"}

\* Every dependency graph over the packages.
Graphs == [GraphNodes -> SUBSET GraphNodes]

\* The graph with exactly the edges A->B, B->C, C->A.
ThreeCycle == [n \in GraphNodes |->
                  IF n = "A" THEN {"B"} ELSE IF n = "B" THEN {"C"} ELSE {"A"}]

\* Node b is reachable from node a over at least one edge of graph g.
RECURSIVE ReachableIn(_, _, _, _)
ReachableIn(g, a, b, steps) ==
    /\ steps > 0
    /\ \/ b \in g[a]
       \/ \E m \in g[a] : ReachableIn(g, m, b, steps - 1)

\* Graph g has no cycle.
Acyclic(g) == \A n \in GraphNodes : ~ReachableIn(g, n, n, Cardinality(GraphNodes))

InitCycles ==
    /\ registry \in [graph : Graphs]
    /\ package \in GraphNodes
    /\ pc = "analyze_dependencies"
    /\ config = [max_size |-> DefaultMaxSize, exclude_dependencies |-> DefaultExclude,
                 force_inline |-> GraphNodes]
    /\ disk = <<>>
    /\ now = 0
    /\ options = None
    /\ package_data = None
    /\ analysis = None
    /\ transformed = None
    /\ bundled = None
    /\ events = <<>>
    /\ outcome = None

\* PackageAnalyzer::analyze_dependencies on the package's dependency map.
AnalyzeDependencies ==
    /\ pc = "analyze_dependencies"
    /\ analysis' = PackageAnalyzer_analyze_dependencies(registry.graph[package])
    /\ pc' = "bundler_analyze_dependencies"
    /\ UNCHANGED <<now, config, package, registry, disk, options, package_data,
                   transformed, bundled, events, outcome>>

\* The main code of a package: one require() per direct dependency.
RequiresOf(names) == Concat([k \in 1..Len(names) |-> "require('" \o names[k] \o "');"])

\* Bundler::analyze_dependencies on a main code requiring the package's
\* direct dependencies, in any order.
BundlerAnalyzeDependencies ==
    /\ pc = "bundler_analyze_dependencies"
    /\ \E order \in KeyOrders(registry.graph[package]) :
          /\ transformed' = [code |-> RequiresOf(order)]
          /\ bundled' = analyze_dependencies(config, RequiresOf(order))
    /\ pc' = "done"
    /\ UNCHANGED <<now, config, package, registry, disk, options, package_data,
                   analysis, events, outcome>>

NextCycles == AnalyzeDependencies \/ BundlerAnalyzeDependencies

SpecCycles == InitCycles /\ [][NextCycles]_vars

\* The list of cycles holds exactly one cycle, over exactly the given nodes.
OneCycleOver(cycles, nodes) == Len(cycles) = 1 /\ Range(cycles[1]) = nodes

\* C13: on the graph A->B, B->C, C->A the cycle detector returns exactly
\* one cycle, containing A, B and C; on an acyclic graph it returns no cycle.
C13_CycleDetector ==
    pc = "done" =>
        /\ registry.graph = ThreeCycle =>
              /\ OneCycleOver(analysis.circular_dependencies, GraphNodes)
              /\ OneCycleOver(bundled.circular_dependencies, GraphNodes)
        /\ Acyclic(registry.graph) =>
              /\ analysis.circular_dependencies = <<>>
              /\ bundled.circular_dependencies = <<>>

(***************************************************************************)
(* Specification SpecAnalyze: the file loop of PackageAnalyzer::analyze on *)
(* packages of one or two files whose sources hold require() calls and     *)
(* imports of Node.js modules, parseable or not.                           *)
(***************************************************************************)

\* The most statements in the main file of an analyzed package.
MaxStatements == 2

\* A statement the SWC parser rejects.
SyntaxError == "var = "

\* The statements of the analyzed sources.
Statements ==
    { "require('fs')", "require('os')", "require('http')", "require('crypto')",
      "require('path')", "require('lodash')", "import fs from 'fs'",
      "import path from 'path'", SyntaxError }

\* The sources of at least one and at most n statements.
RECURSIVE Sources(_)
Sources(n) ==
    IF n = 1 THEN Statements
    ELSE LET shorter == Sources(n - 1)
         IN  shorter \cup {c \o ";\n" \o s : c \in shorter, s \in Statements}

\* A file of a PackageData; the parser rejects it when it holds SyntaxError.
SourceFile(path, content) ==
    [path |-> path, content |-> content, parses |-> ~Contains(content, SyntaxError)]

\* The file lists analyzed: a main file alone, or followed by a second
\* source file or by a file that is no source.
AnalyzedFiles ==
    LET mains == {SourceFile("index.js", c) : c \in Sources(MaxStatements)}
        more  == {SourceFile("lib/util.js", c) : c \in Statements}
                   \cup {SourceFile("README.md", "require('fs')")}
    IN  {<<m>> : m \in mains} \cup {<<m, o>> : m \in mains, o \in more}

InitAnalyze ==
    /\ package_data \in [files : AnalyzedFiles]
    /\ pc = "analyze"
    /\ config = None
    /\ package = None
    /\ registry = None
    /\ disk = <<>>
    /\ now = 0
    /\ options = None
    /\ analysis = None
    /\ transformed = None
    /\ bundled = None
    /\ events = <<>>
    /\ outcome = None

\* PackageAnalyzer::analyze: the file loop and the results it determines.
AnalyzeFiles ==
    /\ pc = "analyze"
    /\ analysis' = PackageAnalyzer_analyze_files(package_data.files)
    /\ pc' = "done"
    /\ UNCHANGED <<now, config, package, registry, disk, package_data, options, transformed,
                   bundled, events, outcome>>

NextAnalyze == AnalyzeFiles

SpecAnalyze == InitAnalyze /\ [][NextAnalyze]_vars

\* PackageAnalyzer::analyze has returned its result on the files.
FilesAnalyzed == pc = "done" /\ analysis # None /\ package_data # None

\* The module names referenced by a literal require() or import of a source.
Referenced(content) == Range(RequireCaptures(content, 1) \o ImportCaptures(content, 1))

\* The module names referenced in the analyzed files of the package.
ReferencedNames ==
    UNION {Referenced(package_data.files[k].content) :
             k \in {i \in DOMAIN package_data.files :
                      HasSourceExtension(package_data.files[i].path)}}

\* The levels of the issues recorded for module name n.
LevelsFor(n) ==
    {analysis.compatibility_issues[k].level :
       k \in {i \in DOMAIN analysis.compatibility_issues :
                analysis.compatibility_issues[i].api = <<n>>}}

\* The Incompatible and Polyfillable sets of the classification.
Incompatible == {"fs", "child_process", "cluster", "worker_threads", "net", "http",
                 "https", "os"}
Polyfillable == {"crypto", "buffer", "events", "process", "util", "path"}

\* C14: every module name referenced in an analyzed file is classified: an
\* Incompatible name produces Error-level issues, a Polyfillable name
\* produces Warning-level issues and is added to the required polyfills,
\* any other name produces no issue.
C14_Classification ==
    FilesAnalyzed =>
        \A n \in ReferencedNames :
            /\ n \in Incompatible => LevelsFor(n) = {"Error"}
            /\ n \in Polyfillable =>
                  LevelsFor(n) = {"Warning"} /\ n \in analysis.required_polyfills
            /\ n \notin Incompatible \cup Polyfillable => LevelsFor(n) = {}

\* The analyzed package holds the single source file index.js with content c.
SingleSource(c) == package_data.files = <<SourceFile("index.js", c)>>

\* The positions of the issues of a level among the recorded issues.
IssuesOfLevel(level) ==
    {i \in DOMAIN analysis.compatibility_issues :
        analysis.compatibility_issues[i].level = level}

\* C15: a package whose only source is require('fs') yields exactly one
\* Error-level issue, with api "fs"; a package whose only source is
\* require('crypto') yields exactly one Warning-level issue and has
\* "crypto" among its required polyfills.
C15_EndToEnd ==
    FilesAnalyzed =>
        /\ SingleSource("require('fs')") =>
              /\ Cardinality(IssuesOfLevel("Error")) = 1
              /\ \A i \in IssuesOfLevel("Error") :
                     analysis.compatibility_issues[i].api = <<"fs">>
        /\ SingleSource("require('crypto')") =>
              /\ Cardinality(IssuesOfLevel("Warning")) = 1
              /\ "crypto" \in analysis.required_polyfills

\* C15 witness: the crypto-only package analyzed, with its one warning.
C15_Witness ==
    /\ FilesAnalyzed
    /\ SingleSource("require('crypto')")
    /\ Len(analysis.compatibility_issues) = 1
    /\ analysis.required_polyfills = {"crypto"}

\* The positions of the issues that note the degraded analysis of a file: a
\* Warning located in the file that names no API.
DegradedNotes(path) ==
    {i \in IssuesOfLevel("Warning") :
        /\ analysis.compatibility_issues[i].location = path
        /\ analysis.compatibility_issues[i].api = NoneOpt}

\* C16: analyze never returns an error because a file fails to parse: for
\* every analyzed file the parser rejects, the regex scan still reports its
\* incompatible require() calls and exactly one Warning notes the degraded
\* analysis of that file.
C16_ParseDegraded ==
    FilesAnalyzed =>
        /\ analysis.ok
        /\ \A k \in DOMAIN package_data.files :
              LET f == package_data.files[k]
              IN  (HasSourceExtension(f.path) /\ ~f.parses) =>
                     /\ \A n \in Range(RequireCaptures(f.content, 1)) \cap Incompatible :
                            \E i \in IssuesOfLevel("Error") :
                                analysis.compatibility_issues[i].api = <<n>>
                     /\ Cardinality(DegradedNotes(f.path)) = 1

(***************************************************************************)
(* Specification SpecScore: calculate_compatibility_score on issue lists   *)
(* of every mix of levels and on empty and non-empty file sets.            *)
(***************************************************************************)

\* The most Error-level and Warning-level issues in a scored list.
MaxErrors == 11
MaxWarnings == 21

\* The most file analyses of a scored package.
MaxFiles == 2

\* n issues of one level.
Repeat(level, n) == [k \in 1..n |-> level]

InitScore ==
    /\ \E e \in 0..MaxErrors, w \in 0..MaxWarnings, i \in 0..1, f \in 0..MaxFiles :
          package_data = [ issues |-> Repeat("Error", e) \o Repeat("Warning", w)
                                        \o Repeat("Info", i),
                           files  |-> f ]
    /\ pc = "score"
    /\ config = None
    /\ package = None
    /\ registry = None
    /\ disk = <<>>
    /\ now = 0
    /\ options = None
    /\ analysis = None
    /\ transformed = None
    /\ bundled = None
    /\ events = <<>>
    /\ outcome = None

\* PackageAnalyzer::calculate_compatibility_score.
CalculateScore ==
    /\ pc = "score"
    /\ analysis' = [ compatibility_score |->
                       calculate_compatibility_score(package_data.issues,
                                                     package_data.files) ]
    /\ pc' = "done"
    /\ UNCHANGED <<now, config, package, registry, disk, package_data, options, transformed,
                   bundled, events, outcome>>

NextScore == CalculateScore

SpecScore == InitScore /\ [][NextScore]_vars

\* The penalty of the scored issue list, in hundredths.
Penalty ==
    CountLevel(package_data.issues, "Error") * 10
      + CountLevel(package_data.issues, "Warning") * 5

\* C17: the score (in hundredths) is max(0, 100 - (10 * errors + 5 *
\* warnings)) when a file was analyzed and 0 on an empty file set; it lies
\* in [0, 100] and one more Error or one more Warning never raises it.
C17_Score ==
    (pc = "done" /\ analysis # None) =>
        LET score == analysis.compatibility_score
        IN  /\ package_data.files > 0 =>
                  score = (IF 100 - Penalty > 0 THEN 100 - Penalty ELSE 0)
            /\ package_data.files = 0 => score = 0
            /\ score >= 0 /\ score <= 100
            /\ \A level \in {"Error", "Warning"} :
                   calculate_compatibility_score(Append(package_data.issues, level),
                                                 package_data.files) <= score

\* C17 witness: a penalty above one, clamped to the score 0, with files.
C17_Witness ==
    /\ pc = "done" /\ analysis # None
    /\ package_data.files > 0
    /\ Penalty > 100
    /\ analysis.compatibility_score = 0

(***************************************************************************)
(* Specification SpecModuleType: detect_module_type on texts that mix the  *)
(* markers of the module formats.                                          *)
(***************************************************************************)

\* The most fragments in a classified text.
MaxFragments == 3

\* Fragments of module text, with and without format markers.
Fragments ==
    { "module.exports = f;", "exports.f = f;", "import f from 'f';",
      "export default f;", "(function (global, factory) {})(this, f);",
      "(function() {})();", "(function () {})();", "var f = 1;" }

\* All concatenations of at most n fragments.
RECURSIVE Texts(_)
Texts(n) ==
    IF n = 0 THEN {""}
    ELSE LET shorter == Texts(n - 1)
         IN  shorter \cup {c \o s : c \in shorter, s \in Fragments}

InitModuleType ==
    /\ package_data \in [content : Texts(MaxFragments)]
    /\ pc = "detect_module_type"
    /\ config = None
    /\ package = None
    /\ registry = None
    /\ disk = <<>>
    /\ now = 0
    /\ options = None
    /\ analysis = None
    /\ transformed = None
    /\ bundled = None
    /\ events = <<>>
    /\ outcome = None

\* PackageAnalyzer::detect_module_type.
DetectModuleType ==
    /\ pc = "detect_module_type"
    /\ analysis' = [module_type |-> detect_module_type(package_data.content)]
    /\ pc' = "done"
    /\ UNCHANGED <<now, config, package, registry, disk, package_data, options, transformed,
                   bundled, events, outcome>>

NextModuleType == DetectModuleType

SpecModuleType == InitModuleType /\ [][NextModuleType]_vars

\* The markers of each module format in the classified text.
CommonJsMarked ==
    Contains(package_data.content, "module.exports")
      \/ Contains(package_data.content, "exports.")
EsModulesMarked ==
    Contains(package_data.content, "import ") \/ Contains(package_data.content, "export ")
UmdMarked == Contains(package_data.content, "(function (global, factory)")
IifeMarked ==
    Contains(package_data.content, "(function()")
      \/ Contains(package_data.content, "(function ()")

MaxNameLen == 3

\* The characters of the names: letters, a digit, the underscore, the four
\* replaced separators and two characters that are dropped.
NameChars == {"a", "Z", "7", "_", "/", "-", ".", "@", " ", "$"}

\* All names of at most n characters.
RECURSIVE Names(_)
Names(n) ==
    IF n = 0 THEN {""}
    ELSE LET shorter == Names(n - 1)
         IN  shorter \cup {c \o s : c \in shorter, s \in NameChars}

\* The number of applications followed.
MaxApplications == 2

InitSanitize ==
    /\ package \in Names(MaxNameLen)
    /\ events = <<>>
    /\ pc = "sanitize"
    /\ config = None
    /\ registry = None
    /\ disk = <<>>
    /\ now = 0
    /\ options = None
    /\ package_data = None
    /\ analysis = None
    /\ transformed = None
    /\ bundled = None
    /\ outcome = None

\* Bundler::dependency_to_variable_name on the name, then on each result;
\* events keeps the results in order.
Sanitize ==
    /\ pc = "sanitize"
    /\ Len(events) < MaxApplications
    /\ events' = Append(events,
                    dependency_to_variable_name(IF events = <<>> THEN package
                                                ELSE events[Len(events)]))
    /\ pc' = IF Len(events) + 1 = MaxApplications THEN "done" ELSE "sanitize"
    /\ UNCHANGED <<now, config, package, registry, disk, options, package_data, analysis,
                   transformed, bundled, outcome>>

NextSanitize == Sanitize

SpecSanitize == InitSanitize /\ [][NextSanitize]_vars

\* Every character of the text is alphanumeric or an underscore.
OnlyWordChars(s) == \A i \in 1..Len(s) : Ch(s, i) \in WordCh

\* C19: sanitizing a dependency name is idempotent, sanitize(sanitize(x)) =
\* sanitize(x), and its result holds only alphanumeric characters and
\* underscores.
C19_SanitizeIdempotent ==
    /\ \A i \in DOMAIN events : OnlyWordChars(events[i])
    /\ \A i \in DOMAIN events : i > 1 => events[i] = events[1]

\* C19 witness: a name with a replaced and a dropped character, sanitized
\* twice.
C19_Witness ==
    /\ pc = "done" /\ Len(events) = 2
    /\ package = "@a$"
    /\ events[1] = "_a"

(***************************************************************************)
(* Specification SpecTransform: CodeTransformer::transform_package on      *)
(* packages of one or two files that use polyfilled modules or none.       *)
(***************************************************************************)

\* The most statements in the main file of a transformed package.
MaxTransformed == 2

\* The statements of the transformed sources.
TransformStatements ==
    { "require('crypto')", "require('buffer')", "require('path')",
      "var home = process.env.HOME", "var y = 1", "'use strict'", SyntaxError }

\* The sources of at least one and at most n statements.
RECURSIVE TransformSources(_)
TransformSources(n) ==
    IF n = 1 THEN TransformStatements
    ELSE LET shorter == TransformSources(n - 1)
         IN  shorter \cup {c \o ";\n" \o s : c \in shorter, s \in TransformStatements}

\* The file lists transformed: a main file alone or with a second file.
TransformedFiles ==
    LET mains == {SourceFile("index.js", c) : c \in TransformSources(MaxTransformed)}
        more  == {SourceFile("lib/util.js", c) : c \in TransformStatements}
    IN  {<<m>> : m \in mains} \cup {<<m, o>> : m \in mains, o \in more}

\* The naming options of the transformed packages.
TransformOptionSets ==
    { [bundle_strategy |-> "Inline", exclude_dependencies |-> <<>>, name |-> n,
       namespace |-> ns, minify |-> FALSE, output_path |-> NoneOpt] :
         n \in {NoneOpt, <<"Lib">>}, ns \in {NoneOpt, <<"Vendor">>} }

InitTransform ==
    /\ package_data \in [files : TransformedFiles]
    /\ options \in TransformOptionSets
    /\ analysis = [package_info |-> [name |-> "pkg", version |-> "1.0.0",
                                     main |-> <<"index.js">>]]
    /\ pc = "transform_package"
    /\ config = None
    /\ package = None
    /\ registry = None
    /\ disk = <<>>
    /\ now = 0
    /\ transformed = None
    /\ bundled = None
    /\ events = <<>>
    /\ outcome = None

\* CodeTransformer::transform_package.
TransformPackage ==
    /\ pc = "transform_package"
    /\ \E order \in KeyOrders({package_data.files[k].path :
                                  k \in DOMAIN package_data.files}) :
          transformed' = transform_package(package_data.files, order, options,
                                           analysis.package_info.name,
                                           analysis.package_info.main)
    /\ pc' = "done"
    /\ UNCHANGED <<now, config, package, registry, disk, options, package_data, analysis,
                   bundled, events, outcome>>

NextTransform == TransformPackage

SpecTransform == InitTransform /\ [][NextTransform]_vars

\* transform_package has returned and at least one polyfill is required.
PolyfillsInjected ==
    pc = "done" /\ transformed # None /\ transformed.polyfills # <<>>

\* The lines (1-based) of the transformed code that are exactly the text t
\* once trimmed.
LinesThatAre(t) ==
    {i \in 1..Len(Lines(transformed.code)) : Trim(Lines(transformed.code)[i]) = t}

\* The lines holding the strict-mode directive that opens the factory: the
\* directive right after the line that opens the factory function.
FactoryDirectives ==
    {i \in LinesThatAre("'use strict';") :
        i > 1 /\ (i - 1) \in LinesThatAre(
                     "})(typeof window !== 'undefined' ? window : this, function() {")}

\* C20: when a polyfill is required the polyfill block has exactly one
\* begin marker and one end marker and begins immediately after the
\* opening strict-mode directive of the factory function: only blank lines
\* lie between that directive and the begin marker.
C20_InjectionPoint ==
    PolyfillsInjected =>
        /\ Cardinality(LinesThatAre("// === Polyfills ===")) = 1
        /\ Cardinality(LinesThatAre("// === End Polyfills ===")) = 1
        /\ \A b \in LinesThatAre("// === Polyfills ===") :
               \E d \in FactoryDirectives :
                   /\ d < b
                   /\ \A j \in (d + 1)..(b - 1) : j \in LinesThatAre("")

(***************************************************************************)
(* Specification SpecInject: CodeTransformer::inject_polyfills on a joined *)
(* module and every list of requested names, registered or not.            *)
(***************************************************************************)

\* The most names in a requested list.
MaxNeeded == 3

\* The requested names: two registered, two absent from the registry.
NeededNames == {"crypto", "path", "stream", "zlib"}

\* All lists of at most n requested names.
RECURSIVE NeededLists(_)
NeededLists(n) ==
    IF n = 0 THEN {<<>>}
    ELSE LET shorter == NeededLists(n - 1)
         IN  shorter \cup {Append(q, x) : q \in shorter, x \in NeededNames}

InitInject ==
    /\ package_data \in [needed : NeededLists(MaxNeeded)]
    /\ options \in TransformOptionSets
    /\ pc = "inject_polyfills"
    /\ config = None
    /\ package = None
    /\ registry = None
    /\ disk = <<>>
    /\ now = 0
    /\ analysis = None
    /\ transformed = None
    /\ bundled = None
    /\ events = <<>>
    /\ outcome = None

\* CodeTransformer::inject_polyfills on the module bundle_files joins from
\* one file.
InjectPolyfills ==
    /\ pc = "inject_polyfills"
    /\ transformed' =
          [ ok   |-> TRUE,
            code |-> inject_polyfills(
                         bundle_files(<<[path |-> "index.js", code |-> "var y = 1\n"]>>,
                                      options, "pkg", NoneOpt),
                         package_data.needed) ]
    /\ pc' = "done"
    /\ UNCHANGED <<now, config, package, registry, disk, options, package_data, analysis,
                   bundled, events, outcome>>

NextInject == InjectPolyfills

SpecInject == InitInject /\ [][NextInject]_vars

\* inject_polyfills has returned.
Injected == pc = "done" /\ transformed # None /\ package_data # None

\* C21: injection with a requested name absent from the registry succeeds
\* and inserts no text for that name, while the source of every requested
\* name present in the registry is inserted.
C21_UnregisteredSkipped ==
    Injected =>
        /\ transformed.ok
        /\ \A n \in Range(package_data.needed) :
              IF n \in RegisteredPolyfills
              THEN Contains(transformed.code,
                            "  // Polyfill: " \o n \o "\n  " \o PolyfillSource(n))
              ELSE ~Contains(transformed.code, n)

\* C21 witness: a registered and an absent name requested together.
C21_Witness ==
    /\ Injected
    /\ package_data.needed = <<"stream", "crypto">>
    /\ Contains(transformed.code, "// === Polyfills ===")

\* C22: the polyfill names transform_package collects are sorted and hold
\* no name twice, however often an API is required or accessed, so the
\* output holds each polyfill body at most once.
C22_PolyfillsSortedDeduplicated ==
    PolyfillsInjected =>
        /\ \A i, j \in DOMAIN transformed.polyfills :
               i < j => StrLess(transformed.polyfills[i], transformed.polyfills[j])
        /\ \A n \in Range(transformed.polyfills) :
               Cardinality(Occurrences(transformed.code, "  // Polyfill: " \o n \o "\n")) <= 1

\* The source files of the transformed package the transform fails on.
FailingFiles ==
    {f \in Range(package_data.files) : HasSourceExtension(f.path) /\ ~f.parses}

\* C23: a file whose transform fails is included with its original text,
\* is reported by a warning and is counted as processed, and
\* transform_package still returns Ok with the remaining files.
C23_TransformFallback ==
    (pc = "done" /\ transformed # None /\ package_data # None) =>
        /\ transformed.ok
        /\ transformed.files_processed =
              Cardinality({k \in DOMAIN package_data.files :
                              HasSourceExtension(package_data.files[k].path)})
        /\ \A f \in Range(package_data.files) :
              HasSourceExtension(f.path) =>
                  Contains(transformed.code, "\n// === " \o f.path \o " ===\n")
        /\ \A f \in FailingFiles :
              /\ Contains(transformed.code,
                          "\n// === " \o f.path \o " ===\n" \o f.content \o "\n")
              /\ f.path \in Range(transformed.warnings)

\* C23 witness: the main file fails, a second file is transformed and
\* brings a polyfill.
C23_Witness ==
    /\ pc = "done" /\ transformed # None
    /\ Len(package_data.files) = 2
    /\ transformed.warnings = <<"index.js">>
    /\ transformed.files_processed = 2
    /\ transformed.polyfills = <<"crypto">>

\* The call runs under BundleConfig::default() lists.
DefaultLists == config.exclude_dependencies = DefaultExclude /\ config.force_inline = {}

\* C24: with the default configuration should_bundle_dependency is false
\* for the Node built-ins fs and crypto and true for the relative specifier
\* ./local-module and for the bare package name lodash, so a required
\* lodash is among the bundled dependencies.
C24_ShouldBundleDefaults ==
    (BundleReturned /\ DefaultLists) =>
        /\ ~should_bundle_dependency(config, "fs")
        /\ ~should_bundle_dependency(config, "crypto")
        /\ should_bundle_dependency(config, "./local-module")
        /\ should_bundle_dependency(config, "lodash")
        /\ ("lodash" \in Detected /\ bundled.ok) =>
               "lodash" \in Range(bundled.bundled_dependencies)

(***************************************************************************)
(* Specification SpecGlobalName: OutputGenerator::sanitize_global_name on  *)
(* package names.                                                          *)
(***************************************************************************)

\* The package names sanitized: every short name and three full ones.
GlobalNameInputs ==
    Names(MaxNameLen) \cup {"my-package", "@types/node", "123invalid"}

InitGlobalName ==
    /\ package \in GlobalNameInputs
    /\ pc = "sanitize_global_name"
    /\ config = None
    /\ registry = None
    /\ disk = <<>>
    /\ now = 0
    /\ options = None
    /\ package_data = None
    /\ analysis = None
    /\ transformed = None
    /\ bundled = None
    /\ events = <<>>
    /\ outcome = None

\* OutputGenerator::sanitize_global_name.
SanitizeGlobalName ==
    /\ pc = "sanitize_global_name"
    /\ outcome' = [global_name |-> sanitize_global_name(package)]
    /\ pc' = "done"
    /\ UNCHANGED <<now, config, package, registry, disk, options, package_data, analysis,
                   transformed, bundled, events>>

NextGlobalName == SanitizeGlobalName

SpecGlobalName == InitGlobalName /\ [][NextGlobalName]_vars

\* C25: sanitize_global_name gives MyPackage for my-package, TypesNode for
\* @types/node and _123Invalid for 123invalid; its result never begins
\* with a digit, a name that begins with one getting a leading underscore.
C25_GlobalName ==
    (pc = "done" /\ outcome # None) =>
        /\ package = "my-package" => outcome.global_name = "MyPackage"
        /\ package = "@types/node" => outcome.global_name = "TypesNode"
        /\ package = "123invalid" => outcome.global_name = "_123Invalid"
        /\ outcome.global_name # "" => Ch(outcome.global_name, 1) \notin Digits
        /\ (package # "" /\ Ch(package, 1) \in Digits) =>
               StartsWith(outcome.global_name, "_")


\* The code transform_package assembles in this state when the map of
\* transformed files iterates in the given order.
AssembledCode(order) ==
    transform_package(package_data.files, order, options,
                      analysis.package_info.name, analysis.package_info.main).code

\* C26: the assembled code is the same whatever the iteration order of the
\* map that holds the transformed files: two runs on the same files and
\* options give byte-identical code.
C26_DeterministicAssembly ==
    (pc = "done" /\ transformed # None) =>
        \A order \in KeyOrders({package_data.files[k].path :
                                   k \in DOMAIN package_data.files}) :
            AssembledCode(order) = transformed.code


\* convert has written the output file and returned Ok.
OutputWritten == pc = "done" /\ outcome # None /\ outcome.ok

\* C27: no step of convert writes a file before the final write of the
\* output file: while convert is running, and after it has failed at any
\* stage, the disk is as it was when convert was called.
C27_NoWriteBeforeOutput ==
    ~OutputWritten => disk = <<>>


\* The code bundle hands to optimize_bundle in this call, when the Selective
\* strategy iterated in the given order.
AssembledText(order) ==
    AssembleByStrategy(transformed.code, options.bundle_strategy,
        analyze_dependencies(config, transformed.code),
        create_bundle_options(config, options.bundle_strategy,
                              options.exclude_dependencies),
        order)

\* C28: optimization never unbalances a bundle: when the code assembled
\* before optimization has balanced braces and parentheses and is within
\* the size budget, bundle returns Ok.
C28_DedupKeepsBalance ==
    (BundleReturned /\ \A order \in OrdersOfCall :
                          /\ Balanced(AssembledText(order))
                          /\ Len(AssembledText(order)) <= config.max_size)
        => bundled.ok


\* C30: every declared dependency is in at most one of the lists
\* problematic, browser compatible and needs polyfills, the first class
\* whose test it passes in that order; the lists are pairwise disjoint and
\* their sizes add up to at most total_dependencies.
C30_ClassesDisjoint ==
    Analyzed =>
        LET deps           == analysis.dependency_analysis
            problematic    == deps.problematic_dependencies
            browser        == deps.browser_compatible
            polyfilled     == deps.needs_polyfills
        IN  /\ problematic \cap browser = {}
            /\ problematic \cap polyfilled = {}
            /\ browser \cap polyfilled = {}
            /\ Cardinality(problematic) + Cardinality(browser) + Cardinality(polyfilled)
                  <= deps.total_dependencies
            /\ deps.total_dependencies = Cardinality(package_data.dependencies)
            /\ \A d \in package_data.dependencies :
                  /\ d \in problematic <=> is_problematic_dependency(d)
                  /\ d \in browser <=> (~is_problematic_dependency(d)
                                         /\ is_browser_compatible(d))
                  /\ d \in polyfilled <=> (/\ ~is_problematic_dependency(d)
                                           /\ ~is_browser_compatible(d)
                                           /\ needs_polyfills(d))
            /\ (problematic \cup browser \cup polyfilled) \subseteq package_data.dependencies

\* C30 witness: a dependency that passes the problematic test and the
\* polyfill test is listed as problematic only, next to one of no class.
C30_Witness ==
    /\ Analyzed
    /\ \E d \in package_data.dependencies :
          /\ is_problematic_dependency(d)
          /\ needs_polyfills(d)
          /\ d \in analysis.dependency_analysis.problematic_dependencies
          /\ d \notin analysis.dependency_analysis.needs_polyfills
    /\ "express" \in package_data.dependencies
    /\ Cardinality(analysis.dependency_analysis.problematic_dependencies)
         + Cardinality(analysis.dependency_analysis.browser_compatible)
         + Cardinality(analysis.dependency_analysis.needs_polyfills)
         < analysis.dependency_analysis.total_dependencies


(***************************************************************************)
(* Specification SpecCache: repeated calls of NpmClient::download_package  *)
(* with one specifier while the clock advances.                            *)
(***************************************************************************)

\* Most calls of download_package in one behaviour.
MaxCalls == 3

\* The instants at which the clock is read: the start, half an hour later,
\* the ends of the two ttls and the seconds after them.
CacheInstants ==
    {0, 1800, MetadataTtl, MetadataTtl + 1, PackageDataTtl, PackageDataTtl + 1}

InitCache ==
    /\ package \in Packages
    /\ registry \in Registries
    /\ disk = <<>>
    /\ now = 0
    /\ pc = "download_package"
    /\ events = <<>>
    /\ package_data = None
    /\ config = None
    /\ options = None
    /\ analysis = None
    /\ transformed = None
    /\ bundled = None
    /\ outcome = None

\* One call of NpmClient::download_package; events records when it was
\* made, whether it returned Ok, whether it requested the registry metadata
\* and whether it returned the cached package data.
DownloadPackage ==
    /\ pc = "download_package"
    /\ Len(events) < MaxCalls
    /\ \E dl \in {download_package(package, registry, disk, now)} :
          /\ disk' = dl.disk
          /\ package_data' = IF dl.ok THEN dl.data ELSE None
          /\ events' = Append(events, [at |-> now, ok |-> dl.ok,
                                       fetched |-> dl.fetched, cached |-> dl.cached])
    /\ UNCHANGED <<now, config, package, registry, options, pc, analysis, transformed,
                   bundled, outcome>>

\* Time passes.
Tick ==
    /\ pc = "download_package"
    /\ Len(events) < MaxCalls
    /\ \E t \in CacheInstants : t > now /\ now' = t
    /\ UNCHANGED <<config, package, registry, disk, options, pc, package_data, analysis,
                   transformed, bundled, events, outcome>>

NextCache == DownloadPackage \/ Tick

SpecCache == InitCache /\ [][NextCache]_vars

\* C29: after a call of download_package that fetched and stored the data,
\* a later call with the same specifier made no later than PackageDataTtl
\* seconds after it returns the cached data without requesting the registry
\* metadata, with or without a version in the specifier; and a call
\* returns cached data only when a call that stored it was made at most
\* PackageDataTtl seconds before.
C29_CacheServesRepeats ==
    /\ \A i, j \in DOMAIN events :
          (/\ i < j
           /\ events[i].ok
           /\ ~events[i].cached
           /\ events[j].at <= events[i].at + PackageDataTtl)
              => (events[j].cached /\ ~events[j].fetched)
    /\ \A j \in DOMAIN events :
          events[j].cached =>
              \E i \in 1..(j - 1) : /\ events[i].ok
                                    /\ ~events[i].cached
                                    /\ events[j].at <= events[i].at + PackageDataTtl

=============================================================================
